---- MODULE Spec2Model ----
(***************************************************************************)
(* Analysis and pruning pipeline of chaos-scan.                            *)
(*                                                                         *)
(* runAnalysis(facts, options) selects a scan mode, lets the detectors of  *)
(* that mode push candidate issues onto rawIssues, derives the prune       *)
(* options of the mode and hands the candidates to pruneIssues, the        *)
(* six-stage score / gate / dedup / per-entity cap / low-severity / total  *)
(* cap pipeline.                                                           *)
(*                                                                         *)
(* Numbers.  JavaScript numbers are modelled as integers:                  *)
(*   - confidence is held in thousandths (800 stands for 0.8);             *)
(*   - a score is held in thousandths of a score point;                    *)
(*   - impacts are drawn from values of the form 10^k - 1, for which       *)
(*     Math.log10(impact + 1) = k is exact, so that two model scores are   *)
(*     equal exactly when the two floating point scores are equal.         *)
(* null is Null for strings and NullNum for numbers.                       *)
(***************************************************************************)
EXTENDS Integers, Sequences, FiniteSets, TLC

VARIABLES
    suite,          \* which family of candidate issues the detectors emit
    facts,          \* runAnalysis argument facts: FactRecord[]
    forceScanMode,  \* options.forceScanMode (Null when absent)
    prune,          \* options.prune: Partial<PruneOptions>
    rawIssues,      \* runAnalysis local rawIssues: ProposedIssue[]
    scanMode,       \* runAnalysis local scanMode
    pruneOptions,   \* the options runAnalysis hands to pruneIssues
    pruneResult,    \* the PruneResult returned by pruneIssues
    pc,             \* position inside runAnalysis
    derivedRecurrence,  \* runAnalysis local derivedRecurrence: Map<string, RecurrenceClassification>
    impactResult,   \* the ImpactResult returned by an impact calculator
    exclusion,      \* the ExclusionResult returned by checkExclusion
    bankInsights,   \* runAnalysis local bankInsights: BankInsights | null
    args            \* the function called last and its scalar arguments

vars == <<suite, facts, forceScanMode, prune, rawIssues, scanMode,
          pruneOptions, pruneResult, pc, derivedRecurrence, impactResult, exclusion,
          bankInsights, args>>

Null == "null"

NullNum == -1

(***************************************************************************)
(* pruneIssues.ts                                                          *)
(***************************************************************************)

DEFAULT_PRUNE_OPTIONS ==
    [ maxIssues         |-> 8,
      maxPerEntity      |-> 2,
      allowLowSeverity  |-> TRUE,
      minEvidenceByType |->
        [ unpaid_invoice_aging  |-> 1,
          recurring_payment_gap |-> 3,
          amount_drift          |-> 4,
          duplicate_charge      |-> 2,
          new_recurring_charge  |-> 3,
          price_creep           |-> 4,
          unusual_spike         |-> 6 ] ]

BANK_MODE_PRUNE_OPTIONS ==
    [ maxIssues         |-> 8,
      maxPerEntity      |-> 1,
      allowLowSeverity  |-> TRUE,
      minEvidenceByType |->
        [ unpaid_invoice_aging  |-> 1,
          recurring_payment_gap |-> 3,
          amount_drift          |-> 4,
          duplicate_charge      |-> 2,
          new_recurring_charge  |-> 3,
          price_creep           |-> 4,
          unusual_spike         |-> 6 ] ]

SEVERITY_WEIGHT == [high |-> 3, medium |-> 2, low |-> 1]

\* Math.log10 on the powers of ten, the only arguments the model passes.
RECURSIVE Log10(_)
Log10(x) == IF x < 10 THEN 0 ELSE 1 + Log10(x \div 10)

\* The larger of the two bounds instead of impactMin first.
ImpactOf_Largest(issue) ==
    LET lo == IF issue.impactMin # NullNum THEN issue.impactMin ELSE 0
        hi == IF issue.impactMax # NullNum THEN issue.impactMax ELSE 0
    IN  IF lo > hi THEN lo ELSE hi

\* issue.impactMin ?? issue.impactMax ?? 0
ImpactOf(issue) ==
    IF issue.impactMin # NullNum THEN issue.impactMin
    ELSE IF issue.impactMax # NullNum THEN issue.impactMax
    ELSE 0

\* The score in thousandths of a point.
calculateScore(issue) ==
    LET severityScore   == SEVERITY_WEIGHT[issue.severity] * 10 * 1000
        confidenceScore == issue.confidence * 5
        impact          == ImpactOf(issue)
        impactScore     == IF impact > 0 THEN Log10(impact + 1) * 1000 ELSE 0
        evidenceScore   == Len(issue.evidenceFactIds) * 200
    IN  severityScore + confidenceScore + impactScore + evidenceScore

\* One step of the stable sort: x goes behind every element that does not
\* compare after it (comparator calculateScore(b) - calculateScore(a)).
RECURSIVE InsertByScore(_, _)
InsertByScore(sorted, x) ==
    IF sorted = <<>> THEN <<x>>
    ELSE LET last == sorted[Len(sorted)]
         IN  IF calculateScore(last) >= calculateScore(x)
             THEN Append(sorted, x)
             ELSE Append(InsertByScore(SubSeq(sorted, 1, Len(sorted) - 1), x), last)

\* No sort at all: the candidates stay in the order of arrival.
sortIssuesByScore_Unsorted(issues) == issues

\* [...issues].sort((a, b) => calculateScore(b) - calculateScore(a));
\* Array.prototype.sort is stable.
RECURSIVE sortIssuesByScore(_)
sortIssuesByScore(issues) ==
    IF issues = <<>> THEN <<>>
    ELSE InsertByScore(sortIssuesByScore(SubSeq(issues, 1, Len(issues) - 1)),
                       issues[Len(issues)])

\* minEvidenceByType[issue.issueType] ?? 1
MinEvidence(minEvidenceByType, issueType) ==
    IF issueType \in DOMAIN minEvidenceByType
    THEN minEvidenceByType[issueType]
    ELSE 1

\* The gate with > for >=.
hasMinimumEvidence_Strict(issue, minEvidenceByType) ==
    Len(issue.evidenceFactIds) > MinEvidence(minEvidenceByType, issue.issueType)

hasMinimumEvidence(issue, minEvidenceByType) ==
    Len(issue.evidenceFactIds) >= MinEvidence(minEvidenceByType, issue.issueType)

filterLowEvidence(issues, minEvidenceByType) ==
    SelectSeq(issues, LAMBDA issue : hasMinimumEvidence(issue, minEvidenceByType))

\* issue.entityName ?? "_unknown_"
EntityKey(issue) ==
    IF issue.entityName = Null THEN "_unknown_" ELSE issue.entityName

\* `${entityKey}|${detectorKey}`: no issue type holds a "|", so the string
\* determines the pair and the pair the string.
\* The key without the detector.
DedupKey_EntityOnly(issue) == <<EntityKey(issue)>>

DedupKey(issue) == <<EntityKey(issue), issue.issueType>>

RECURSIVE DedupLoop(_, _, _, _)
DedupLoop(issues, i, seen, result) ==
    IF i > Len(issues) THEN result
    ELSE LET key == DedupKey(issues[i])
         IN  IF key \notin seen
             THEN DedupLoop(issues, i + 1, seen \cup {key}, Append(result, issues[i]))
             ELSE DedupLoop(issues, i + 1, seen, result)

deduplicateByEntityAndDetector(issues) == DedupLoop(issues, 1, {}, <<>>)

\* countByEntity.get(entityKey) ?? 0
CountOf(countByEntity, entityKey) ==
    IF entityKey \in DOMAIN countByEntity THEN countByEntity[entityKey] ELSE 0

\* The loop with <= for <: one issue too many per entity.
RECURSIVE CapLoop_OneMore(_, _, _, _, _)
CapLoop_OneMore(issues, maxPerEntity, i, countByEntity, result) ==
    IF i > Len(issues) THEN result
    ELSE LET entityKey    == IF issues[i].entityName = Null THEN "_unknown_"
                             ELSE issues[i].entityName
             currentCount == IF entityKey \in DOMAIN countByEntity
                             THEN countByEntity[entityKey] ELSE 0
         IN  IF currentCount <= maxPerEntity
             THEN CapLoop_OneMore(issues, maxPerEntity, i + 1,
                                  (entityKey :> currentCount + 1) @@ countByEntity,
                                  Append(result, issues[i]))
             ELSE CapLoop_OneMore(issues, maxPerEntity, i + 1, countByEntity, result)

RECURSIVE CapLoop(_, _, _, _, _)
CapLoop(issues, maxPerEntity, i, countByEntity, result) ==
    IF i > Len(issues) THEN result
    ELSE LET entityKey    == EntityKey(issues[i])
             currentCount == CountOf(countByEntity, entityKey)
         IN  IF currentCount < maxPerEntity
             THEN CapLoop(issues, maxPerEntity, i + 1,
                          (entityKey :> currentCount + 1) @@ countByEntity,
                          Append(result, issues[i]))
             ELSE CapLoop(issues, maxPerEntity, i + 1, countByEntity, result)

capPerEntity(issues, maxPerEntity) == CapLoop(issues, maxPerEntity, 1, <<>>, <<>>)

\* The filter without the quota: low severity is dropped whenever it is not
\* allowed.
filterLowSeverityIfNeeded_NoQuota(issues, allowLowSeverity, maxIssues) ==
    IF allowLowSeverity THEN issues
    ELSE SelectSeq(issues, LAMBDA i : i.severity # "low")

filterLowSeverityIfNeeded(issues, allowLowSeverity, maxIssues) ==
    IF allowLowSeverity THEN issues
    ELSE LET nonLow == SelectSeq(issues, LAMBDA i : i.severity # "low")
         IN  IF Len(nonLow) >= maxIssues THEN nonLow ELSE issues

\* slice(0, maxIssues + 1)
capIssues_OffByOne(issues, maxIssues) ==
    SubSeq(issues, 1, IF Len(issues) < maxIssues + 1 THEN Len(issues) ELSE maxIssues + 1)

\* issues.slice(0, maxIssues), maxIssues >= 0
capIssues(issues, maxIssues) ==
    SubSeq(issues, 1, IF Len(issues) < maxIssues THEN Len(issues) ELSE maxIssues)

\* { ...DEFAULT_PRUNE_OPTIONS, ...options }
MergeOptions(options) == options @@ DEFAULT_PRUNE_OPTIONS

\* pruneIssues with droppedPerEntityCap measured against the list before the
\* dedup, so that a duplicate is counted twice.
pruneIssues_DoubleCount(issues, options) ==
    LET opts                   == MergeOptions(options)
        sorted                 == sortIssuesByScore(issues)
        afterEvidenceFilter    == filterLowEvidence(sorted, opts.minEvidenceByType)
        afterDedup             == deduplicateByEntityAndDetector(afterEvidenceFilter)
        afterEntityCap         == capPerEntity(afterDedup, opts.maxPerEntity)
        afterLowSeverityFilter == filterLowSeverityIfNeeded(afterEntityCap,
                                      opts.allowLowSeverity, opts.maxIssues)
        afterCap               == capIssues(afterLowSeverityFilter, opts.maxIssues)
        droppedByCap           == Len(afterLowSeverityFilter) - Len(afterCap)
        droppedPerEntityCap    == Len(afterEvidenceFilter) - Len(afterEntityCap)
    IN  [ issues              |-> afterCap,
          totalBeforePrune    |-> Len(issues),
          droppedLowEvidence  |-> Len(sorted) - Len(afterEvidenceFilter),
          droppedDuplicates   |-> Len(afterEvidenceFilter) - Len(afterDedup),
          droppedPerEntityCap |-> droppedPerEntityCap,
          droppedLowSeverity  |-> Len(afterEntityCap) - Len(afterLowSeverityFilter),
          droppedByCap        |-> droppedByCap,
          wasCapped           |-> droppedByCap > 0 \/ droppedPerEntityCap > 0 ]

pruneIssues(issues, options) ==
    LET opts                   == MergeOptions(options)
        sorted                 == sortIssuesByScore(issues)
        afterEvidenceFilter    == filterLowEvidence(sorted, opts.minEvidenceByType)
        afterDedup             == deduplicateByEntityAndDetector(afterEvidenceFilter)
        afterEntityCap         == capPerEntity(afterDedup, opts.maxPerEntity)
        afterLowSeverityFilter == filterLowSeverityIfNeeded(afterEntityCap,
                                      opts.allowLowSeverity, opts.maxIssues)
        afterCap               == capIssues(afterLowSeverityFilter, opts.maxIssues)
        droppedByCap           == Len(afterLowSeverityFilter) - Len(afterCap)
        droppedPerEntityCap    == Len(afterDedup) - Len(afterEntityCap)
    IN  [ issues              |-> afterCap,
          totalBeforePrune    |-> Len(issues),
          droppedLowEvidence  |-> Len(sorted) - Len(afterEvidenceFilter),
          droppedDuplicates   |-> Len(afterEvidenceFilter) - Len(afterDedup),
          droppedPerEntityCap |-> droppedPerEntityCap,
          droppedLowSeverity  |-> Len(afterEntityCap) - Len(afterLowSeverityFilter),
          droppedByCap        |-> droppedByCap,
          wasCapped           |-> droppedByCap > 0 \/ droppedPerEntityCap > 0 ]

(***************************************************************************)
(* scanMode.ts                                                             *)
(***************************************************************************)

\* The threshold with >= 0.8 for > 0.8.
detectScanMode_AtLeast(fs) ==
    IF Len(fs) = 0 THEN "billing"
    ELSE LET factsWithDirection ==
                 SelectSeq(fs, LAMBDA f : f.direction = "inflow" \/ f.direction = "outflow")
         IN  IF 5 * Len(factsWithDirection) >= 4 * Len(fs) THEN "bank" ELSE "billing"

\* directionRatio > 0.8 with directionRatio = withDirection / total.  The
\* quotient of two array lengths is the double nearest to the exact ratio,
\* and 0.8 is the double nearest to 4/5, so the comparison is that of
\* 5 * withDirection with 4 * total.
detectScanMode(fs) ==
    IF Len(fs) = 0 THEN "billing"
    ELSE LET factsWithDirection ==
                 SelectSeq(fs, LAMBDA f : f.direction = "inflow" \/ f.direction = "outflow")
         IN  IF 5 * Len(factsWithDirection) > 4 * Len(fs) THEN "bank" ELSE "billing"

(***************************************************************************)
(* runAnalysis.ts                                                          *)
(***************************************************************************)

\* options.forceScanMode || detectScanMode(facts)
SelectScanMode(force, fs) ==
    IF force # Null THEN force ELSE detectScanMode(fs)

\* The prune options of the scan mode: in bank mode the bank profile under
\* the caller's overrides, with allowLowSeverity switched off once three
\* candidates are not of low severity.
\* The tightening with > 3 for >= 3.
AnalysisPruneOptions_MoreThan3(mode, overrides, issues) ==
    IF mode = "bank"
    THEN LET merged      == overrides @@ BANK_MODE_PRUNE_OPTIONS
             nonLowCount == Len(SelectSeq(issues, LAMBDA i : i.severity # "low"))
         IN  IF nonLowCount > 3
             THEN [allowLowSeverity |-> FALSE] @@ merged
             ELSE merged
    ELSE overrides

AnalysisPruneOptions(mode, overrides, issues) ==
    IF mode = "bank"
    THEN LET merged      == overrides @@ BANK_MODE_PRUNE_OPTIONS
             nonLowCount == Len(SelectSeq(issues, LAMBDA i : i.severity # "low"))
         IN  IF nonLowCount >= 3
             THEN [allowLowSeverity |-> FALSE] @@ merged
             ELSE merged
    ELSE overrides

(***************************************************************************)
(* Candidate issues.  createIssue is the fixture of the pruneIssues test   *)
(* suite: a default issue with the overridden fields replaced.  Of the     *)
(* fields pruneIssues never reads only the title is kept: as in the tests, *)
(* it tells the candidates of a list apart.                                *)
(***************************************************************************)

\* evidenceFactIds of n facts
EvidenceIds(n) == [i \in 1..n |-> i]

createIssue(overrides) ==
    overrides @@
    [ issueType       |-> "unpaid_invoice_aging",
      title           |-> "Test Issue",
      severity        |-> "medium",
      confidence      |-> 800,
      impactMin       |-> 999,
      impactMax       |-> 999,
      evidenceFactIds |-> EvidenceIds(2),
      entityName      |-> "Test Entity" ]

\* `Entity ${i}`
EntityName(i) == "Entity " \o ToString(i)

\* `Issue ${i}`
Title(i) == "Issue " \o ToString(i)

\* Array.from({ length: n }, (_, i) =>
\*     createIssue({ entityName: `Entity ${i}`, title: `Issue ${i}` }))
DistinctEntityIssues(n) ==
    [i \in 1..n |-> createIssue([entityName |-> EntityName(i - 1), title |-> Title(i - 1)])]

Severities == {"high", "medium", "low"}

MaxCombined == 3

MaxSorting == 3

MaxOrdering == 3

MaxEvidenceIssues == 2

MaxQuotaIssues == 3

MaxDetected == 3

MaxFacts == 10

CombinedTypes == {"unpaid_invoice_aging", "duplicate_charge", "amount_drift"}

\* "combined behavior": type, entity and severity vary; every issue has
\* three evidence facts, one fewer than amount_drift needs by default.
CombinedIssues(n) ==
    { createIssue([issueType |-> t, entityName |-> e, severity |-> s,
                   evidenceFactIds |-> EvidenceIds(3), title |-> Title(n)]) :
        t \in CombinedTypes, e \in {"Acme", Null}, s \in {"high", "low"} }

CombinedOptions ==
    { <<>>,
      [maxIssues |-> 2, allowLowSeverity |-> FALSE],
      [maxIssues |-> 2, maxPerEntity |-> 1,
       minEvidenceByType |-> [amount_drift |-> 3, duplicate_charge |-> 4]] }

\* The sizes of the candidate lists the "capping" tests build in one go.
BatchSizes == {10, 12}

ImpactPairs == {<<99, 99>>, <<9, 999>>, <<NullNum, 999>>, <<NullNum, NullNum>>}

\* "sorting": severity, confidence and impact vary, each candidate has an
\* entity of its own.
SortingIssues(n) ==
    { createIssue([severity |-> s, confidence |-> c, impactMin |-> p[1],
                   impactMax |-> p[2], entityName |-> EntityName(n),
                   title |-> Title(n)]) :
        s \in Severities, c \in {800, 950}, p \in ImpactPairs }

\* Candidates of two entities and two detectors whose scores differ by
\* severity.
OrderingIssues(n) ==
    { createIssue([issueType |-> t, entityName |-> e, severity |-> s,
                   title |-> Title(n)]) :
        t \in {"unpaid_invoice_aging", "duplicate_charge"}, e \in {"Acme", "Beta"},
        s \in Severities }

OrderingOptions == { <<>>, [maxIssues |-> 2, maxPerEntity |-> 1] }

EvidenceTypes ==
    {"unpaid_invoice_aging", "recurring_payment_gap", "amount_drift", "duplicate_charge",
     "new_recurring_charge", "price_creep", "unusual_spike", "other_detector"}

\* From no evidence to one fact more than the largest minimum in use.
EvidenceCounts == 0..7

\* "low evidence filtering": the type and the number of evidence facts vary.
EvidenceIssues(n) ==
    { createIssue([issueType |-> t, evidenceFactIds |-> EvidenceIds(k),
                   entityName |-> EntityName(n), title |-> Title(n)]) :
        t \in EvidenceTypes, k \in EvidenceCounts }

EvidenceOptions == { <<>>, [minEvidenceByType |-> [amount_drift |-> 2, unusual_spike |-> 7]] }

SuiteIssues(s, n) ==
    CASE s = "combined" -> CombinedIssues(n)
      [] s = "sorting"  -> SortingIssues(n)
      [] s = "ordering" -> OrderingIssues(n)
      [] s = "evidence" -> EvidenceIssues(n)
      \* "low severity": medium and low issues of entities of their own, with
      \* a low or a full confidence and without or with a large impact
      [] s = "quota"    ->
             { createIssue([severity |-> v, confidence |-> c, impactMin |-> p,
                            impactMax |-> p, entityName |-> EntityName(n),
                            title |-> Title(n)]) :
                 v \in {"medium", "low"}, c \in {300, 1000}, p \in {NullNum, 9999999} }

SuiteOptions(s) ==
    CASE s = "combined" -> CombinedOptions
      [] s = "sorting"  -> { <<>> }
      [] s = "ordering" -> OrderingOptions
      [] s = "evidence" -> EvidenceOptions
      [] s = "quota"    -> { [maxIssues |-> 2, allowLowSeverity |-> FALSE],
                             [maxIssues |-> 2, allowLowSeverity |-> TRUE] }

SuiteMax(s) ==
    CASE s = "combined" -> MaxCombined
      [] s = "sorting"  -> MaxSorting
      [] s = "ordering" -> MaxOrdering
      [] s = "evidence" -> MaxEvidenceIssues
      [] s = "quota"    -> MaxQuotaIssues

\* What the detectors of a scan mode can push: the issue types and the
\* severities of that mode, impactMin = impactMax, and at least the evidence
\* the detector needs to fire.
DetectorIssues(mode, n) ==
    LET shapes ==
            IF mode = "bank"
            THEN { <<"new_recurring_charge", "high", 3>>,
                   <<"new_recurring_charge", "medium", 3>>,
                   <<"duplicate_charge", "medium", 2>>,
                   <<"duplicate_charge", "low", 2>> }
            ELSE { <<"unpaid_invoice_aging", "high", 1>>,
                   <<"unpaid_invoice_aging", "low", 1>>,
                   <<"recurring_payment_gap", "medium", 3>>,
                   <<"duplicate_charge", "low", 2>> }
    IN  { createIssue([issueType |-> sh[1], severity |-> sh[2],
                       evidenceFactIds |-> EvidenceIds(sh[3]), entityName |-> e,
                       title |-> Title(n)]) :
            sh \in shapes, e \in {"Acme", Null} }

AnalysisOptions == { <<>>, [maxIssues |-> 2], [maxPerEntity |-> 2, maxIssues |-> 1] }

Directions == {"inflow", "outflow", "unknown"}

EmptyResult ==
    [ issues |-> <<>>, totalBeforePrune |-> 0, droppedLowEvidence |-> 0,
      droppedDuplicates |-> 0, droppedPerEntityCap |-> 0,
      droppedLowSeverity |-> 0, droppedByCap |-> 0, wasCapped |-> FALSE ]

(***************************************************************************)
(* A direct caller of pruneIssues.                                         *)
(***************************************************************************)

InitSuite(s) ==
    /\ suite = s
    /\ facts = <<>>
    /\ forceScanMode = Null
    /\ prune \in SuiteOptions(s)
    /\ rawIssues = <<>>
    /\ scanMode = Null
    /\ pruneOptions = <<>>
    /\ pruneResult = EmptyResult
    /\ pc = "collect"
    /\ derivedRecurrence = <<>>
    /\ impactResult = Null
    /\ exclusion = Null
    /\ bankInsights = Null
    /\ args = <<>>

\* The caller puts one more candidate on its list.
AddCandidate ==
    /\ pc = "collect"
    /\ Len(rawIssues) < SuiteMax(suite)
    /\ \E issue \in SuiteIssues(suite, Len(rawIssues)) :
           rawIssues' = Append(rawIssues, issue)
    /\ UNCHANGED <<suite, facts, forceScanMode, prune, scanMode, pruneOptions,
                   pruneResult, pc>>
    /\ UNCHANGED <<derivedRecurrence, impactResult, exclusion, args,
                   bankInsights>>

\* The caller builds a list of n default issues of n entities in one go.
AddDistinctEntities ==
    /\ pc = "collect"
    /\ rawIssues = <<>>
    /\ \E n \in BatchSizes : rawIssues' = DistinctEntityIssues(n)
    /\ UNCHANGED <<suite, facts, forceScanMode, prune, scanMode, pruneOptions,
                   pruneResult, pc>>
    /\ UNCHANGED <<derivedRecurrence, impactResult, exclusion, args,
                   bankInsights>>

\* pruneIssues(issues, options)
CallPruneIssues ==
    /\ pc = "collect"
    /\ pruneOptions' = prune
    /\ pruneResult' = pruneIssues(rawIssues, prune)
    /\ pc' = "done"
    /\ UNCHANGED <<suite, facts, forceScanMode, prune, rawIssues, scanMode>>
    /\ UNCHANGED <<derivedRecurrence, impactResult, exclusion, args,
                   bankInsights>>

NextDirect == AddCandidate \/ CallPruneIssues

NextCombined == AddCandidate \/ AddDistinctEntities \/ CallPruneIssues

SpecCombined == InitSuite("combined") /\ [][NextCombined]_vars

SpecSorting == InitSuite("sorting") /\ [][NextDirect]_vars

SpecOrdering == InitSuite("ordering") /\ [][NextDirect]_vars

SpecEvidence == InitSuite("evidence") /\ [][NextDirect]_vars

SpecQuota == InitSuite("quota") /\ [][NextDirect]_vars

(***************************************************************************)
(* runAnalysis(facts, options)                                             *)
(***************************************************************************)

InitAnalysis ==
    /\ suite = "runAnalysis"
    /\ facts = <<>>
    /\ forceScanMode \in {Null, "bank", "billing"}
    /\ prune \in AnalysisOptions
    /\ rawIssues = <<>>
    /\ scanMode = Null
    /\ pruneOptions = <<>>
    /\ pruneResult = EmptyResult
    /\ pc = "start"
    /\ derivedRecurrence = <<>>
    /\ impactResult = Null
    /\ exclusion = Null
    /\ bankInsights = Null
    /\ args = <<>>

InitScanMode ==
    /\ suite = "runAnalysis"
    /\ facts = <<>>
    /\ forceScanMode = Null
    /\ prune = <<>>
    /\ rawIssues = <<>>
    /\ scanMode = Null
    /\ pruneOptions = <<>>
    /\ pruneResult = EmptyResult
    /\ pc = "start"
    /\ derivedRecurrence = <<>>
    /\ impactResult = Null
    /\ exclusion = Null
    /\ bankInsights = Null
    /\ args = <<>>

\* The caller of runAnalysis has one more fact.
AddFact ==
    /\ pc = "start"
    /\ Len(facts) < MaxFacts
    /\ \E d \in Directions :
           facts' = Append(facts, [id |-> Len(facts) + 1, direction |-> d])
    /\ UNCHANGED <<suite, forceScanMode, prune, rawIssues, scanMode, pruneOptions,
                   pruneResult, pc>>
    /\ UNCHANGED <<derivedRecurrence, impactResult, exclusion, args,
                   bankInsights>>

\* const scanMode = options.forceScanMode || detectScanMode(facts);
StartAnalysis ==
    /\ pc = "start"
    /\ scanMode' = SelectScanMode(forceScanMode, facts)
    /\ pc' = "detect"
    /\ UNCHANGED <<suite, facts, forceScanMode, prune, rawIssues, pruneOptions,
                   pruneResult>>
    /\ UNCHANGED <<derivedRecurrence, impactResult, exclusion, args,
                   bankInsights>>

\* rawIssues.push(...) of one issue of a detector of the scan mode.
DetectorPush ==
    /\ pc = "detect"
    /\ Len(rawIssues) < MaxDetected
    /\ \E issue \in DetectorIssues(scanMode, Len(rawIssues)) :
           rawIssues' = Append(rawIssues, issue)
    /\ UNCHANGED <<suite, facts, forceScanMode, prune, scanMode, pruneOptions,
                   pruneResult, pc>>
    /\ UNCHANGED <<derivedRecurrence, impactResult, exclusion, args,
                   bankInsights>>

\* The prune options of the mode, then pruneIssues(rawIssues, pruneOptions).
FinishAnalysis ==
    /\ pc = "detect"
    /\ pruneOptions' = AnalysisPruneOptions(scanMode, prune, rawIssues)
    /\ pruneResult' = pruneIssues(rawIssues, AnalysisPruneOptions(scanMode, prune, rawIssues))
    /\ pc' = "done"
    /\ UNCHANGED <<suite, facts, forceScanMode, prune, rawIssues, scanMode>>
    /\ UNCHANGED <<derivedRecurrence, impactResult, exclusion, args,
                   bankInsights>>

NextAnalysis == StartAnalysis \/ DetectorPush \/ FinishAnalysis

NextScanMode == AddFact \/ StartAnalysis

SpecAnalysis == InitAnalysis /\ [][NextAnalysis]_vars

SpecScanMode == InitScanMode /\ [][NextScanMode]_vars

(***************************************************************************)
(* recurrence/classifyMonthly.ts                                           *)
(*                                                                         *)
(* A dateValue is held as a day number, the number of days from the base   *)
(* date "2024-01-15" of the tests.  Amounts are even whole numbers, so     *)
(* that the median of any list of amounts, (a + b) / 2 for a list of even  *)
(* length, is a whole number too.  For whole numbers the quotient          *)
(* |amount - median| / median is the double nearest to the exact ratio, so *)
(* deviation <= 0.10 is 100 * |amount - median| <= 10 * median.            *)
(* The confidence and the mean and stdDev of intervalStats are floating    *)
(* point statistics that no tier depends on and are left out.              *)
(***************************************************************************)

MONTHLY_INTERVAL_MIN == 28
MONTHLY_INTERVAL_MAX == 33
MONTHLY_INTERVAL_MIN_LOOSE == 28
MONTHLY_INTERVAL_MAX_LOOSE == 35
AMOUNT_TOLERANCE == 10         \* percent
AMOUNT_TOLERANCE_LOOSE == 20   \* percent
MIN_OCCURRENCES == 3
MIN_OCCURRENCES_TIER2 == 4
MIN_VALID_INTERVALS == 2

\* A string that || skips: null or empty.
Falsy(s) == s = Null \/ s = ""

\* fact.entityCanonical || fact.entityRaw || fact.entityName || "_unknown_"
getEntityKey(fact) ==
    IF ~Falsy(fact.entityCanonical) THEN fact.entityCanonical
    ELSE IF ~Falsy(fact.entityRaw) THEN fact.entityRaw
    ELSE IF ~Falsy(fact.entityName) THEN fact.entityName
    ELSE "_unknown_"

Abs(x) == IF x < 0 THEN -x ELSE x

\* Math.round(|d2 - d1| / (1000 * 60 * 60 * 24)) of two dates at midnight UTC
daysBetween(date1, date2) == Abs(date2 - date1)

\* [...values].sort((a, b) => a - b), one value at a time
RECURSIVE SortAscending(_)
SortAscending(values) ==
    LET InsertAscending(sorted, x) ==
            SelectSeq(sorted, LAMBDA y : y <= x) \o <<x>> \o SelectSeq(sorted, LAMBDA y : y > x)
    IN
    IF values = <<>> THEN <<>>
    ELSE InsertAscending(SortAscending(SubSeq(values, 1, Len(values) - 1)),
                         values[Len(values)])

\* sorted[mid] for an odd length, (sorted[mid - 1] + sorted[mid]) / 2 for an
\* even one, with the 0-based mid of the source.
median(values) ==
    IF Len(values) = 0 THEN 0
    ELSE LET sorted == SortAscending(values)
             mid    == Len(sorted) \div 2
         IN  IF Len(sorted) % 2 # 0 THEN sorted[mid + 1]
             ELSE (sorted[mid] + sorted[mid + 1]) \div 2

\* The first conjunct with inflow for outflow dropped.
isQualifyingFact_AnyDirection(fact) ==
    /\ fact.clearingStatus = "cleared"
    /\ fact.amountValue # NullNum
    /\ fact.dateValue # NullNum

isQualifyingFact(fact) ==
    /\ fact.direction = "outflow"
    /\ fact.clearingStatus = "cleared"
    /\ fact.amountValue # NullNum
    /\ fact.dateValue # NullNum

\* The stable sort by dateValue, one fact at a time.
RECURSIVE SortByDate(_)
SortByDate(fs) ==
    LET InsertByDate(sorted, x) ==
            SelectSeq(sorted, LAMBDA y : y.dateValue <= x.dateValue)
            \o <<x>> \o SelectSeq(sorted, LAMBDA y : y.dateValue > x.dateValue)
    IN  IF fs = <<>> THEN <<>>
        ELSE InsertByDate(SortByDate(SubSeq(fs, 1, Len(fs) - 1)), fs[Len(fs)])

CountWithin(intervals, lo, hi) ==
    Len(SelectSeq(intervals, LAMBDA i : i >= lo /\ i <= hi))

\* amounts.every(...) with medianAmount === 0 accepted outright
AmountStable(amounts, medianAmount, tolerance) ==
    \A k \in 1..Len(amounts) :
        medianAmount = 0 \/ 100 * Abs(amounts[k] - medianAmount) <= tolerance * medianAmount

buildNoneClassification(qualifying, intervals, medianAmt) ==
    [ isMonthly     |-> FALSE,
      tier          |-> "none",
      evidenceCount |-> Len(qualifying),
      medianAmount  |-> medianAmt,
      intervalStats |->
          IF Len(intervals) > 0
          THEN [ withinRange      |-> CountWithin(intervals, MONTHLY_INTERVAL_MIN, MONTHLY_INTERVAL_MAX),
                 withinLooseRange |-> CountWithin(intervals, MONTHLY_INTERVAL_MIN_LOOSE, MONTHLY_INTERVAL_MAX_LOOSE) ]
          ELSE Null ]

classifyEntity(fs) ==
    LET qualifying   == SelectSeq(fs, isQualifyingFact)
        sorted       == SortByDate(qualifying)
        \* intervals.push(daysBetween(sorted[i - 1].dateValue, sorted[i].dateValue))
        intervals    == [i \in 1..(Len(sorted) - 1) |->
                             daysBetween(sorted[i].dateValue, sorted[i + 1].dateValue)]
        amounts      == [k \in 1..Len(qualifying) |-> Abs(qualifying[k].amountValue)]
        medianAmount == median(amounts)
        strict       == CountWithin(intervals, MONTHLY_INTERVAL_MIN, MONTHLY_INTERVAL_MAX)
        loose        == CountWithin(intervals, MONTHLY_INTERVAL_MIN_LOOSE, MONTHLY_INTERVAL_MAX_LOOSE)
        stats        == [withinRange |-> strict, withinLooseRange |-> loose]
    IN  IF Len(qualifying) < MIN_OCCURRENCES
        THEN buildNoneClassification(qualifying, <<>>, NullNum)
        ELSE IF strict >= MIN_VALID_INTERVALS /\ AmountStable(amounts, medianAmount, AMOUNT_TOLERANCE)
        THEN [ isMonthly |-> TRUE, tier |-> "strict", evidenceCount |-> Len(qualifying),
               medianAmount |-> medianAmount, intervalStats |-> stats ]
        ELSE IF /\ Len(qualifying) >= MIN_OCCURRENCES_TIER2
                /\ loose >= MIN_VALID_INTERVALS
                /\ AmountStable(amounts, medianAmount, AMOUNT_TOLERANCE_LOOSE)
        THEN [ isMonthly |-> TRUE, tier |-> "likely", evidenceCount |-> Len(qualifying),
               medianAmount |-> medianAmount, intervalStats |-> stats ]
        ELSE buildNoneClassification(qualifying, intervals, medianAmount)

FactsOfEntity(fs, key) == SelectSeq(fs, LAMBDA f : getEntityKey(f) = key)

\* One classification for each key of the byEntity map.
classifyMonthlyByEntity(fs) ==
    [ key \in { getEntityKey(fs[i]) : i \in 1..Len(fs) } |->
          classifyEntity(FactsOfEntity(fs, key)) ]

(***************************************************************************)
(* Facts.  createFact is the fixture of the classifyMonthly test suite: a  *)
(* default cleared outflow payment of 100 USD with the overridden fields   *)
(* replaced.                                                               *)
(***************************************************************************)

createFact(overrides) ==
    overrides @@
    [ id              |-> "fact1",
      factType        |-> "payment",
      entityName      |-> "Test Entity",
      entityRaw       |-> "Test Entity",
      entityCanonical |-> "TEST ENTITY",
      amountValue     |-> 100,
      amountCurrency  |-> "USD",
      dateValue       |-> 0,
      dateType        |-> "paid",
      status          |-> "paid",
      recurrence      |-> "one_time",
      direction       |-> "outflow",
      clearingStatus  |-> "cleared" ]

\* daysFrom(baseDate, days)
daysFrom(baseDate, days) == baseDate + days

MaxClassified == 4
MaxFiltered == 4

\* The n-th charge of one merchant, in any order of dates.  The differences
\* of the day offsets hit both ends of the strict window (28, 33), the end
\* of the loose window (35) and gaps outside of both.
ClassifiedFacts(n) ==
    { createFact([id |-> ToString(n + 1), dateValue |-> daysFrom(0, d), amountValue |-> a]) :
          d \in {0, 28, 61, 96}, a \in {0, 100, 120} }

\* The n-th entry of a statement of two merchants: charges 30 days apart and,
\* for the first merchant, entries the classifier has to ignore: pending,
\* reversed, inflow, without an amount and without a date.
FilteredFacts(n) ==
    { createFact([id |-> ToString(n + 1), dateValue |-> daysFrom(0, d)]) : d \in {0, 30, 60} }
    \cup { createFact([id |-> ToString(n + 1)] @@ o) :
               o \in { [clearingStatus |-> "pending", dateValue |-> daysFrom(0, 45)],
                       [clearingStatus |-> "reversed", dateValue |-> daysFrom(0, 35)],
                       [direction |-> "inflow", dateValue |-> daysFrom(0, 45)],
                       [amountValue |-> NullNum, dateValue |-> daysFrom(0, 15)],
                       [dateValue |-> NullNum] } }
    \cup { createFact([id |-> ToString(n + 1), dateValue |-> daysFrom(0, d),
                       entityCanonical |-> "OTHER", entityRaw |-> "Other",
                       entityName |-> "Other"]) : d \in {0, 30, 60} }

\* The fixture of the impact test suite: an unpaid invoice of 1000 USD.
createInvoiceFact(overrides) ==
    overrides @@
    [ id              |-> "fact1",
      factType        |-> "invoice",
      entityName      |-> "Test Entity",
      entityRaw       |-> "Test Entity",
      entityCanonical |-> "TEST ENTITY",
      amountValue     |-> 1000,
      amountCurrency  |-> "USD",
      dateValue       |-> 0,
      dateType        |-> "issued",
      status          |-> "unpaid",
      recurrence      |-> "one_time",
      direction       |-> "unknown",
      clearingStatus  |-> "unknown" ]

MaxImpactFacts == 4

\* The n-th fact of a caller: an unpaid invoice or a monthly payment, with
\* or without an amount and a currency.
ImpactFacts(n) ==
    { createInvoiceFact([id |-> "f" \o ToString(n)] @@ o) :
          o \in { [recurrence |-> "monthly"],
                  [recurrence |-> "monthly", amountValue |-> 500],
                  [recurrence |-> "monthly", amountCurrency |-> "EUR", amountValue |-> 500],
                  [recurrence |-> "monthly", amountCurrency |-> Null],
                  [recurrence |-> "monthly", amountValue |-> NullNum],
                  [recurrence |-> "monthly", amountValue |-> NullNum, amountCurrency |-> Null],
                  <<>> } }

(***************************************************************************)
(* A caller of classifyMonthlyByEntity (and, in the suite "impact", of the *)
(* impact calculators): a list of facts put together entry by entry.       *)
(***************************************************************************)

InitStatement(s) ==
    /\ suite = s
    /\ facts = <<>>
    /\ forceScanMode = Null
    /\ prune = <<>>
    /\ rawIssues = <<>>
    /\ scanMode = Null
    /\ pruneOptions = <<>>
    /\ pruneResult = EmptyResult
    /\ pc = "facts"
    /\ derivedRecurrence = <<>>
    /\ impactResult = Null
    /\ exclusion = Null
    /\ bankInsights = Null
    /\ args = <<>>

\* The statement has one more entry.
AddStatementFact ==
    /\ pc = "facts"
    /\ Len(facts) < (CASE suite = "classification" -> MaxClassified
                        [] suite = "filtering"      -> MaxFiltered
                        [] suite = "impact"         -> MaxImpactFacts)
    /\ \E fact \in (CASE suite = "classification" -> ClassifiedFacts(Len(facts))
                       [] suite = "filtering"      -> FilteredFacts(Len(facts))
                       [] suite = "impact"         -> ImpactFacts(Len(facts))) :
           facts' = Append(facts, fact)
    /\ UNCHANGED <<suite, forceScanMode, prune, rawIssues, scanMode, pruneOptions,
                   pruneResult, pc, derivedRecurrence, impactResult, exclusion, args,
                   bankInsights>>

\* const derivedRecurrence = classifyMonthlyByEntity(facts);
ClassifyMonthly ==
    /\ pc = "facts"
    /\ derivedRecurrence' = classifyMonthlyByEntity(facts)
    /\ pc' = "classified"
    /\ UNCHANGED <<suite, facts, forceScanMode, prune, rawIssues, scanMode,
                   pruneOptions, pruneResult, impactResult, exclusion, args,
                   bankInsights>>

NextClassify == AddStatementFact \/ ClassifyMonthly

SpecClassification == InitStatement("classification") /\ [][NextClassify]_vars

SpecFiltering == InitStatement("filtering") /\ [][NextClassify]_vars

(***************************************************************************)
(* impact.ts                                                               *)
(*                                                                         *)
(* Amounts are even whole numbers, so that medians and the average of two  *)
(* amounts are whole.                                                      *)
(***************************************************************************)

NO_IMPACT ==
    [ impactMin |-> NullNum, impactMax |-> NullNum, currency |-> Null, reason |-> Null ]

\* { ...NO_IMPACT, reason }
NoImpact(reason) == [NO_IMPACT EXCEPT !.reason = reason]

getConsistentCurrency(fs) ==
    LET withCurrency == SelectSeq(fs, LAMBDA f : f.amountCurrency # Null)
        unique       == { withCurrency[i].amountCurrency : i \in 1..Len(withCurrency) }
    IN  IF Len(withCurrency) = 0 THEN Null
        ELSE IF Cardinality(unique) # 1 THEN Null
        ELSE withCurrency[1].amountCurrency

\* areAmountsStable(amounts, threshold) with the threshold in percent:
\* max(|a - med| / med) <= threshold.
areAmountsStable(amounts, threshold) ==
    IF Len(amounts) < 2 THEN FALSE
    ELSE LET med == median(amounts)
         IN  IF med = 0 THEN FALSE
             ELSE IF med < 0 THEN TRUE
             ELSE \A k \in 1..Len(amounts) :
                      100 * Abs(amounts[k] - med) <= threshold * med

AmountsOf(fs) == [k \in 1..Len(fs) |-> fs[k].amountValue]

\* agedInvoices.reduce((sum, f) => sum + (f.amountValue || 0), 0)
RECURSIVE SumOfAmounts(_)
SumOfAmounts(fs) ==
    IF fs = <<>> THEN 0
    ELSE SumOfAmounts(SubSeq(fs, 1, Len(fs) - 1))
         + (IF fs[Len(fs)].amountValue = NullNum THEN 0 ELSE fs[Len(fs)].amountValue)

AllHaveAmounts(fs) == \A k \in 1..Len(fs) : fs[k].amountValue # NullNum

AllHaveCurrency(fs) == \A k \in 1..Len(fs) : fs[k].amountCurrency # Null

AllMonthly(fs) == \A k \in 1..Len(fs) : fs[k].recurrence = "monthly"

\* A currency that `!currency` rejects: null or empty.
NoCurrency(currency) == currency = Null \/ currency = ""

calculateUnpaidInvoiceImpact(agedInvoices) ==
    IF Len(agedInvoices) = 0 THEN NoImpact("No aged invoices")
    ELSE IF ~AllHaveAmounts(agedInvoices) THEN NoImpact("Some invoices missing amount values")
    ELSE IF ~AllHaveCurrency(agedInvoices) THEN NoImpact("Some invoices missing explicit currency")
    ELSE IF NoCurrency(getConsistentCurrency(agedInvoices))
    THEN NoImpact("Mixed currencies across invoices")
    ELSE [ impactMin |-> SumOfAmounts(agedInvoices),
           impactMax |-> SumOfAmounts(agedInvoices),
           currency  |-> getConsistentCurrency(agedInvoices),
           reason    |-> Null ]

\* The calculator without the check of monthsMissed.
calculatePaymentGapImpact_NoMonths(paymentsBeforeGap, monthsMissed) ==
    IF Len(paymentsBeforeGap) < 2
    THEN NoImpact("Insufficient payment history (need at least 2)")
    ELSE IF ~AllMonthly(paymentsBeforeGap)
    THEN NoImpact("Not all payments have explicit monthly recurrence")
    ELSE IF ~AllHaveAmounts(paymentsBeforeGap) THEN NoImpact("Some payments missing amount values")
    ELSE IF ~AllHaveCurrency(paymentsBeforeGap)
    THEN NoImpact("Some payments missing explicit currency")
    ELSE IF NoCurrency(getConsistentCurrency(paymentsBeforeGap))
    THEN NoImpact("Mixed currencies across payments")
    ELSE IF ~areAmountsStable(AmountsOf(paymentsBeforeGap), 10)
    THEN NoImpact("Payment amounts not stable (>10% variance)")
    ELSE LET medianAmount == median(AmountsOf(paymentsBeforeGap))
         IN  [ impactMin |-> medianAmount * monthsMissed,
               impactMax |-> medianAmount * monthsMissed,
               currency  |-> getConsistentCurrency(paymentsBeforeGap),
               reason    |-> Null ]

calculatePaymentGapImpact(paymentsBeforeGap, monthsMissed) ==
    IF monthsMissed <= 0 THEN NoImpact("No months missed")
    ELSE IF Len(paymentsBeforeGap) < 2
    THEN NoImpact("Insufficient payment history (need at least 2)")
    ELSE IF ~AllMonthly(paymentsBeforeGap)
    THEN NoImpact("Not all payments have explicit monthly recurrence")
    ELSE IF ~AllHaveAmounts(paymentsBeforeGap) THEN NoImpact("Some payments missing amount values")
    ELSE IF ~AllHaveCurrency(paymentsBeforeGap)
    THEN NoImpact("Some payments missing explicit currency")
    ELSE IF NoCurrency(getConsistentCurrency(paymentsBeforeGap))
    THEN NoImpact("Mixed currencies across payments")
    ELSE IF ~areAmountsStable(AmountsOf(paymentsBeforeGap), 10)
    THEN NoImpact("Payment amounts not stable (>10% variance)")
    ELSE LET medianAmount == median(AmountsOf(paymentsBeforeGap))
         IN  [ impactMin |-> medianAmount * monthsMissed,
               impactMax |-> medianAmount * monthsMissed,
               currency  |-> getConsistentCurrency(paymentsBeforeGap),
               reason    |-> Null ]

calculateDriftImpact(allPayments, priorMedian, recentAvg) ==
    IF Len(allPayments) < 4 THEN NoImpact("Insufficient payment history (need at least 4)")
    ELSE IF ~AllMonthly(allPayments)
    THEN NoImpact("Not all payments have explicit monthly recurrence")
    ELSE IF ~AllHaveCurrency(allPayments) THEN NoImpact("Some payments missing explicit currency")
    ELSE IF NoCurrency(getConsistentCurrency(allPayments))
    THEN NoImpact("Mixed currencies across payments")
    ELSE IF priorMedian - recentAvg <= 0 THEN NoImpact("No decrease detected")
    ELSE [ impactMin |-> (priorMedian - recentAvg) * 12,
           impactMax |-> (priorMedian - recentAvg) * 12,
           currency  |-> getConsistentCurrency(allPayments),
           reason    |-> Null ]

calculateDuplicateImpact(duplicatePayments) ==
    IF Len(duplicatePayments) < 2 THEN NoImpact("Not enough duplicates")
    ELSE IF ~AllHaveAmounts(duplicatePayments) THEN NoImpact("Some payments missing amount values")
    ELSE IF ~AllHaveCurrency(duplicatePayments)
    THEN NoImpact("Some payments missing explicit currency")
    ELSE IF NoCurrency(getConsistentCurrency(duplicatePayments))
    THEN NoImpact("Mixed currencies across payments")
    ELSE LET amount == duplicatePayments[1].amountValue
         IN  [ impactMin |-> amount * (Len(duplicatePayments) - 1),
               impactMax |-> amount * (Len(duplicatePayments) - 1),
               currency  |-> getConsistentCurrency(duplicatePayments),
               reason    |-> Null ]

(***************************************************************************)
(* A caller of the impact calculators.                                     *)
(***************************************************************************)

CallUnpaidInvoiceImpact ==
    /\ pc = "facts"
    /\ args' = [function |-> "calculateUnpaidInvoiceImpact"]
    /\ impactResult' = calculateUnpaidInvoiceImpact(facts)
    /\ pc' = "calculated"
    /\ UNCHANGED <<suite, facts, forceScanMode, prune, rawIssues, scanMode,
                   pruneOptions, pruneResult, derivedRecurrence, exclusion,
                   bankInsights>>

CallPaymentGapImpact ==
    /\ pc = "facts"
    /\ \E monthsMissed \in {0, 2} :
           /\ args' = [function |-> "calculatePaymentGapImpact", monthsMissed |-> monthsMissed]
           /\ impactResult' = calculatePaymentGapImpact(facts, monthsMissed)
    /\ pc' = "calculated"
    /\ UNCHANGED <<suite, facts, forceScanMode, prune, rawIssues, scanMode,
                   pruneOptions, pruneResult, derivedRecurrence, exclusion,
                   bankInsights>>

\* The <<priorMedian, recentAvg>> passed: a decrease from 100 to 70 and no
\* decrease.
CallDriftImpact ==
    /\ pc = "facts"
    /\ \E a \in { <<100, 70>>, <<100, 100>> } :
           /\ args' = [function |-> "calculateDriftImpact", priorMedian |-> a[1],
                       recentAvg |-> a[2]]
           /\ impactResult' = calculateDriftImpact(facts, a[1], a[2])
    /\ pc' = "calculated"
    /\ UNCHANGED <<suite, facts, forceScanMode, prune, rawIssues, scanMode,
                   pruneOptions, pruneResult, derivedRecurrence, exclusion,
                   bankInsights>>

CallDuplicateImpact ==
    /\ pc = "facts"
    /\ args' = [function |-> "calculateDuplicateImpact"]
    /\ impactResult' = calculateDuplicateImpact(facts)
    /\ pc' = "calculated"
    /\ UNCHANGED <<suite, facts, forceScanMode, prune, rawIssues, scanMode,
                   pruneOptions, pruneResult, derivedRecurrence, exclusion,
                   bankInsights>>

NextImpact ==
    \/ AddStatementFact
    \/ CallUnpaidInvoiceImpact
    \/ CallPaymentGapImpact
    \/ CallDriftImpact
    \/ CallDuplicateImpact

SpecImpact == InitStatement("impact") /\ [][NextImpact]_vars

(***************************************************************************)
(* exclusions.ts                                                           *)
(*                                                                         *)
(* Entity texts are strings; includes, startsWith and toUpperCase are      *)
(* computed character by character.                                        *)
(***************************************************************************)

STRONG_TRANSFER_KEYWORDS ==
    << "ZELLE", "VENMO", "CASH APP", "CASHAPP", "PAYPAL TRANSFER", "APPLE CASH",
       "WIRE TRANSFER", "ACH TRANSFER", "INTERNAL TRANSFER", "EXTERNAL TRANSFER" >>

WEAK_TRANSFER_PATTERNS == << "PAYMENT", "TRANSFER", "XFER", "ACH", "WIRE" >>

MERCHANT_INDICATORS ==
    << "AMAZON", "NETFLIX", "SPOTIFY", "HULU", "DISNEY", "APPLE.COM", "GOOGLE", "UBER",
       "LYFT", "DOORDASH", "GRUBHUB", "STARBUCKS", "WALMART", "TARGET", "COSTCO", "CVS",
       "WALGREENS", "SHELL", "CHEVRON", "EXXON", "AT&T", "VERIZON", "T-MOBILE", "COMCAST",
       "SPECTRUM" >>

CARD_PAYMENT_PATTERNS ==
    << "AUTOPAY", "AUTO PAY", "CARD PAYMENT", "ONLINE PAYMENT", "MINIMUM PAYMENT",
       "STATEMENT PAYMENT", "BILL PAY TO", "BILLPAY" >>

BANK_SERVICE_PATTERNS ==
    << "OVERDRAFT", "NSF FEE", "SERVICE CHARGE", "MONTHLY FEE", "INTEREST CHARGE",
       "FINANCE CHARGE", "MAINTENANCE FEE" >>

CharAt(text, i) == SubSeq(text, i, i)

\* The upper-case letter of each lower-case letter.
UpperCaseOf ==
    LET LowerCaseLetters == "abcdefghijklmnopqrstuvwxyz"
        UpperCaseLetters == "ABCDEFGHIJKLMNOPQRSTUVWXYZ"
    IN  [ c \in { CharAt(LowerCaseLetters, i) : i \in 1..Len(LowerCaseLetters) } |->
            CharAt(UpperCaseLetters,
                   CHOOSE i \in 1..Len(LowerCaseLetters) : CharAt(LowerCaseLetters, i) = c) ]

\* String.prototype.toUpperCase
RECURSIVE toUpperCase(_)
toUpperCase(text) ==
    LET UpperChar(c) == IF c \in DOMAIN UpperCaseOf THEN UpperCaseOf[c] ELSE c
    IN  IF Len(text) = 0 THEN ""
        ELSE UpperChar(CharAt(text, 1)) \o toUpperCase(SubSeq(text, 2, Len(text)))

\* String.prototype.includes
includes(text, pattern) ==
    \E i \in 1..(Len(text) - Len(pattern) + 1) : SubSeq(text, i, i + Len(pattern) - 1) = pattern

\* String.prototype.startsWith
startsWith(text, pattern) ==
    Len(text) >= Len(pattern) /\ SubSeq(text, 1, Len(pattern)) = pattern

\* /\d{4}$/.test(text)
EndsWithFourDigits(text) ==
    LET Digits     == "0123456789"
        IsDigit(c) == \E i \in 1..Len(Digits) : CharAt(Digits, i) = c
    IN  Len(text) >= 4 /\ \A i \in (Len(text) - 3)..Len(text) : IsDigit(CharAt(text, i))

NotExcluded == [isExcluded |-> FALSE, reason |-> Null, pattern |-> Null]

Excluded(reason, pattern) == [isExcluded |-> TRUE, reason |-> reason, pattern |-> pattern]

\* The pattern a for loop over the patterns returns with: the first of the
\* list among those that match (hits holds their positions).
FirstMatch(patterns, hits) == patterns[CHOOSE i \in hits : \A j \in hits : i <= j]

\* The body of the loop over WEAK_TRANSFER_PATTERNS returns for this pattern.
WeakTransferMatch(canonical, raw, pattern) ==
    LET isAtStart        == startsWith(canonical, pattern)
        isShortEntity    == Len(canonical) < 20
        patternDominates == Len(canonical) <= Len(pattern) + 10
        isJustThePattern == canonical = pattern \/ Len(canonical) <= Len(pattern) + 12
        hasTransferContext ==
            \/ includes(raw, "TO ")
            \/ includes(raw, "FROM ")
            \/ includes(raw, "SEND")
            \/ includes(raw, "RECEIVED")
            \/ EndsWithFourDigits(raw)
    IN  /\ isAtStart
        /\ isShortEntity \/ patternDominates
        /\ isJustThePattern \/ hasTransferContext

\* The strong transfer keywords looked up before the merchant indicators.
checkExclusion_StrongFirst(entityCanonical, entityRaw) ==
    IF Falsy(entityCanonical) THEN NotExcluded
    ELSE LET canonical == toUpperCase(entityCanonical)
             raw       == toUpperCase(IF Falsy(entityRaw) THEN "" ELSE entityRaw)
             InCanonical(ps) == { i \in 1..Len(ps) : includes(canonical, ps[i]) }
             InEither(ps)    == { i \in 1..Len(ps) : includes(canonical, ps[i]) \/ includes(raw, ps[i]) }
             WeakMatch(ps)   == { i \in 1..Len(ps) : WeakTransferMatch(canonical, raw, ps[i]) }
         IN  IF InCanonical(STRONG_TRANSFER_KEYWORDS) # {}
             THEN Excluded("P2P transfer service", FirstMatch(STRONG_TRANSFER_KEYWORDS, InCanonical(STRONG_TRANSFER_KEYWORDS)))
             ELSE IF InCanonical(MERCHANT_INDICATORS) # {} THEN NotExcluded
             ELSE IF InEither(CARD_PAYMENT_PATTERNS) # {}
             THEN Excluded("Credit card payment", FirstMatch(CARD_PAYMENT_PATTERNS, InEither(CARD_PAYMENT_PATTERNS)))
             ELSE IF InCanonical(BANK_SERVICE_PATTERNS) # {}
             THEN Excluded("Bank fee/service", FirstMatch(BANK_SERVICE_PATTERNS, InCanonical(BANK_SERVICE_PATTERNS)))
             ELSE IF WeakMatch(WEAK_TRANSFER_PATTERNS) # {}
             THEN Excluded("Transfer/payment", FirstMatch(WEAK_TRANSFER_PATTERNS, WeakMatch(WEAK_TRANSFER_PATTERNS)))
             ELSE NotExcluded

checkExclusion(entityCanonical, entityRaw) ==
    IF Falsy(entityCanonical) THEN NotExcluded
    ELSE LET canonical == toUpperCase(entityCanonical)
             raw       == toUpperCase(IF Falsy(entityRaw) THEN "" ELSE entityRaw)
             InCanonical(ps) == { i \in 1..Len(ps) : includes(canonical, ps[i]) }
             InEither(ps)    == { i \in 1..Len(ps) : includes(canonical, ps[i]) \/ includes(raw, ps[i]) }
             WeakMatch(ps)   == { i \in 1..Len(ps) : WeakTransferMatch(canonical, raw, ps[i]) }
         IN  IF InCanonical(MERCHANT_INDICATORS) # {} THEN NotExcluded
             ELSE IF InCanonical(STRONG_TRANSFER_KEYWORDS) # {}
             THEN Excluded("P2P transfer service", FirstMatch(STRONG_TRANSFER_KEYWORDS, InCanonical(STRONG_TRANSFER_KEYWORDS)))
             ELSE IF InEither(CARD_PAYMENT_PATTERNS) # {}
             THEN Excluded("Credit card payment", FirstMatch(CARD_PAYMENT_PATTERNS, InEither(CARD_PAYMENT_PATTERNS)))
             ELSE IF InCanonical(BANK_SERVICE_PATTERNS) # {}
             THEN Excluded("Bank fee/service", FirstMatch(BANK_SERVICE_PATTERNS, InCanonical(BANK_SERVICE_PATTERNS)))
             ELSE IF WeakMatch(WEAK_TRANSFER_PATTERNS) # {}
             THEN Excluded("Transfer/payment", FirstMatch(WEAK_TRANSFER_PATTERNS, WeakMatch(WEAK_TRANSFER_PATTERNS)))
             ELSE NotExcluded

\* checkExclusion(entityCanonical, entityRaw).isExcluded
isNonMerchantTransaction(entityCanonical, entityRaw) ==
    checkExclusion(entityCanonical, entityRaw).isExcluded

(***************************************************************************)
(* A caller of checkExclusion: a canonical entity text put together from   *)
(* words, and a raw description.                                           *)
(***************************************************************************)

MaxWords == 3

InitExclusion ==
    /\ suite = "exclusion"
    /\ facts = <<>>
    /\ forceScanMode = Null
    /\ prune = <<>>
    /\ rawIssues = <<>>
    /\ scanMode = Null
    /\ pruneOptions = <<>>
    /\ pruneResult = EmptyResult
    /\ pc = "text"
    /\ derivedRecurrence = <<>>
    /\ impactResult = Null
    /\ exclusion = Null
    /\ bankInsights = Null
    /\ \E canonical \in {Null, ""}, raw \in { Null, "Card Payment", "ACH TO 1234" } :
           args = [words |-> 0, entityCanonical |-> canonical, entityRaw |-> raw]

\* The canonical text has one more word.
AddWord ==
    /\ pc = "text"
    /\ args.entityCanonical # Null
    /\ args.words < MaxWords
    /\ \E word \in { "AMAZON ", "netflix ", "ZELLE ", "AUTOPAY ", "OVERDRAFT ", "PAYMENT " } :
           args' = [args EXCEPT !.words = @ + 1, !.entityCanonical = @ \o word]
    /\ UNCHANGED <<suite, facts, forceScanMode, prune, rawIssues, scanMode, pruneOptions,
                   pruneResult, pc, derivedRecurrence, impactResult, exclusion,
                   bankInsights>>

CallCheckExclusion ==
    /\ pc = "text"
    /\ exclusion' = checkExclusion(args.entityCanonical, args.entityRaw)
    /\ pc' = "checked"
    /\ UNCHANGED <<suite, facts, forceScanMode, prune, rawIssues, scanMode, pruneOptions,
                   pruneResult, derivedRecurrence, impactResult, args,
                   bankInsights>>

NextExclusion == AddWord \/ CallCheckExclusion

SpecExclusion == InitExclusion /\ [][NextExclusion]_vars

(***************************************************************************)
(* Bank detectors: detectors/bank/duplicateCharge.ts, unusualSpike.ts,     *)
(* newRecurringCharge.ts and priceCreep.ts.  An issue keeps the fields     *)
(* issueType, title, severity, impactMin, impactMax, currency,             *)
(* evidenceFactIds and entityName; confidence, rationale and the evidence  *)
(* summary are left out.                                                   *)
(***************************************************************************)

HIGH_AMOUNT_THRESHOLD == 100
MIN_HISTORY == 6
HIGH_SPIKE_THRESHOLD == 200
RECENT_DAYS_THRESHOLD == 60
HIGH_ANNUAL_THRESHOLD == 500
PRICE_CREEP_MIN_OCCURRENCES == 4
PRICE_INCREASE_THRESHOLD == 15
BASELINE_STABILITY_THRESHOLD == 10
HIGH_DELTA_ANNUAL_THRESHOLD == 100

\* a || b for strings
OrElse(a, b) == IF Falsy(a) THEN b ELSE a

\* The keys of a Map in the order of their first insertion.
RECURSIVE KeysInOrder(_)
KeysInOrder(keys) ==
    IF keys = <<>> THEN <<>>
    ELSE LET rest == KeysInOrder(SubSeq(keys, 1, Len(keys) - 1))
             last == keys[Len(keys)]
         IN  IF \E k \in 1..Len(rest) : rest[k] = last THEN rest ELSE Append(rest, last)

\* issues.push(...) over the entries of a Map: the issues of all entries, in
\* the order of the entries.
RECURSIVE Pushed(_)
Pushed(perEntry) ==
    IF perEntry = <<>> THEN <<>>
    ELSE Pushed(SubSeq(perEntry, 1, Len(perEntry) - 1)) \o perEntry[Len(perEntry)]

\* Ids made up from the positions in the group.
IdsOf_Fabricated(fs) == [k \in 1..Len(fs) |-> "fact" \o ToString(k)]

\* group.map((f) => f.id)
IdsOf(fs) == [k \in 1..Len(fs) |-> fs[k].id]

AbsAmountsOf(fs) == [k \in 1..Len(fs) |-> Abs(fs[k].amountValue)]

\* The filter every bank detector applies: outflow, cleared, with a date and
\* an amount.
IsClearedOutflow(fact) ==
    /\ fact.direction = "outflow"
    /\ fact.clearingStatus = "cleared"
    /\ fact.dateValue # NullNum
    /\ fact.amountValue # NullNum

detectBankDuplicateCharges(fs) ==
    LET \* const key = `${entityKey}|${fact.dateValue}|${fact.amountValue}`
        DuplicateKey(fact) == <<getEntityKey(fact), fact.dateValue, fact.amountValue>>
        qualifying == SelectSeq(fs, IsClearedOutflow)
        keys       == KeysInOrder([k \in 1..Len(qualifying) |-> DuplicateKey(qualifying[k])])
        IssueOf(key) ==
            LET group       == SelectSeq(qualifying, LAMBDA f : DuplicateKey(f) = key)
                entity      == key[1]
                amount      == Abs(group[1].amountValue)
                currency    == group[1].amountCurrency
                impact      == amount * (Len(group) - 1)
                severity    == IF amount >= HIGH_AMOUNT_THRESHOLD THEN "medium" ELSE "low"
                displayName == IF entity = "_unknown_" THEN Null
                               ELSE OrElse(group[1].entityName, entity)
            IN  IF Len(group) < 2 THEN <<>>
                ELSE << [ issueType       |-> "duplicate_charge",
                          title           |-> "Possible duplicate charge: "
                                              \o OrElse(displayName, "unknown merchant"),
                          severity        |-> severity,
                          impactMin       |-> impact,
                          impactMax       |-> impact,
                          currency        |-> currency,
                          evidenceFactIds |-> IdsOf(group),
                          entityName      |-> displayName ] >>
    IN  IF Len(qualifying) < 2 THEN <<>>
        ELSE Pushed([k \in 1..Len(keys) |-> IssueOf(keys[k])])

\* The facts the three pattern detectors group by entity, without the skip
\* of non-merchant transactions.
MerchantFacts_NoExclusion(fs) ==
    SelectSeq(fs, IsClearedOutflow)

\* The facts the three pattern detectors group by entity: cleared outflows
\* whose key is not a non-merchant transaction.  isNonMerchantTransaction(key)
\* depends on the key alone and is looked up once for each key.
MerchantFacts(fs) ==
    LET cleared  == SelectSeq(fs, IsClearedOutflow)
        excluded == { key \in { getEntityKey(cleared[k]) : k \in 1..Len(cleared) } :
                          isNonMerchantTransaction(key, Null) }
    IN  SelectSeq(cleared, LAMBDA f : getEntityKey(f) \notin excluded)

\* The keys of byEntity, in insertion order.
ByEntityKeys(grouped) ==
    KeysInOrder([k \in 1..Len(grouped) |-> getEntityKey(grouped[k])])

detectUnusualSpike(fs) ==
    LET grouped == MerchantFacts(fs)
        keys    == ByEntityKeys(grouped)
        \* for (const [entityKey, entityFacts] of byEntity)
        IssueOf(entityKey, entityFacts) ==
            LET sorted         == SortByDate(entityFacts)
                history        == SubSeq(sorted, 1, Len(sorted) - 1)
                recentCharge   == sorted[Len(sorted)]
                historyMedian  == median(AbsAmountsOf(history))
                recentAmount   == Abs(recentCharge.amountValue)
                spikeAmount    == recentAmount - historyMedian
                currency       == recentCharge.amountCurrency
                severity       == IF spikeAmount >= HIGH_SPIKE_THRESHOLD THEN "high"
                                  ELSE "medium"
                displayName    == OrElse(sorted[1].entityName, entityKey)
                \* sorted.slice(-4)
                recentContext  == SubSeq(sorted, IF Len(sorted) > 4 THEN Len(sorted) - 3 ELSE 1,
                                         Len(sorted))
            IN  IF Len(entityFacts) < MIN_HISTORY + 1 THEN <<>>
                ELSE IF historyMedian = 0 THEN <<>>
                \* multiplier < SPIKE_MULTIPLIER, with SPIKE_MULTIPLIER = 2.5
                ELSE IF 2 * recentAmount < 5 * historyMedian THEN <<>>
                ELSE << [ issueType       |-> "unusual_spike",
                          title           |-> "Unusual charge amount: " \o displayName,
                          severity        |-> severity,
                          impactMin       |-> spikeAmount,
                          impactMax       |-> spikeAmount,
                          currency        |-> currency,
                          evidenceFactIds |-> IdsOf(recentContext),
                          entityName      |-> displayName ] >>
    IN  Pushed([k \in 1..Len(keys) |-> IssueOf(keys[k], FactsOfEntity(grouped, keys[k]))])

detectNewRecurringCharge(fs, options) ==
    LET \* dates[dates.length - 1] of the sorted dates of the facts that have
        \* one; null when there is none
        dates   == { fs[k].dateValue : k \in 1..Len(fs) } \ {NullNum}
        endDate == IF options.datasetEndDate # NullNum THEN options.datasetEndDate
                   ELSE IF dates = {} THEN NullNum
                   ELSE CHOOSE d \in dates : \A e \in dates : e <= d
        grouped == MerchantFacts(fs)
        keys    == ByEntityKeys(grouped)
        \* for (const [entityKey, entityFacts] of byEntity)
        IssueOf(entityKey, entityFacts) ==
            LET known          == entityKey \in DOMAIN options.derivedRecurrence
                classification == options.derivedRecurrence[entityKey]
                sorted         == SortByDate(entityFacts)
                firstDate      == sorted[1].dateValue
                daysSinceFirst == endDate - firstDate
                medianAmount   == classification.medianAmount
                currency       == sorted[1].amountCurrency
                \* medianAmount ? medianAmount * 12 : null
                annualAmount   == IF medianAmount = NullNum \/ medianAmount = 0 THEN NullNum
                                  ELSE medianAmount * 12
                severity       == IF annualAmount # NullNum /\ annualAmount > HIGH_ANNUAL_THRESHOLD
                                  THEN "high" ELSE "medium"
                displayName    == OrElse(sorted[1].entityName, entityKey)
            IN  IF ~known THEN <<>>
                ELSE IF ~classification.isMonthly
                        \/ classification.evidenceCount < MIN_OCCURRENCES THEN <<>>
                ELSE IF daysSinceFirst > RECENT_DAYS_THRESHOLD THEN <<>>
                ELSE << [ issueType       |-> "new_recurring_charge",
                          title           |-> "New recurring charge detected: " \o displayName,
                          severity        |-> severity,
                          impactMin       |-> medianAmount,
                          impactMax       |-> medianAmount,
                          currency        |-> currency,
                          evidenceFactIds |-> IdsOf(sorted),
                          entityName      |-> displayName ] >>
    IN  IF endDate = NullNum THEN <<>>
        ELSE Pushed([k \in 1..Len(keys) |-> IssueOf(keys[k], FactsOfEntity(grouped, keys[k]))])

\* The detector that skips the merchants that are not classified as monthly.
detectPriceCreep_OnlyMonthly(fs, options) ==
    LET grouped == MerchantFacts(fs)
        keys    == ByEntityKeys(grouped)
        \* for (const [entityKey, entityFacts] of byEntity)
        IssueOf(entityKey, entityFacts) ==
            LET sorted          == SortByDate(entityFacts)
                baseline        == SubSeq(sorted, 1, Len(sorted) - 1)
                lastOccurrence  == sorted[Len(sorted)]
                baselineAmounts == AbsAmountsOf(baseline)
                baselineMedian  == median(baselineAmounts)
                lastAmount      == Abs(lastOccurrence.amountValue)
                isBaselineStable ==
                    \A k \in 1..Len(baselineAmounts) :
                        100 * Abs(baselineAmounts[k] - baselineMedian)
                            <= BASELINE_STABILITY_THRESHOLD * baselineMedian
                monthlyDelta    == lastAmount - baselineMedian
                annualDelta     == monthlyDelta * 12
                currency        == lastOccurrence.amountCurrency
                severity        == IF annualDelta > HIGH_DELTA_ANNUAL_THRESHOLD THEN "high"
                                   ELSE "medium"
                displayName     == OrElse(sorted[1].entityName, entityKey)
            IN  IF ~(/\ entityKey \in DOMAIN options.derivedRecurrence
                     /\ options.derivedRecurrence[entityKey].isMonthly) THEN <<>>
                ELSE IF Len(entityFacts) < PRICE_CREEP_MIN_OCCURRENCES THEN <<>>
                ELSE IF baselineMedian = 0 THEN <<>>
                ELSE IF ~isBaselineStable THEN <<>>
                \* percentIncrease < PRICE_INCREASE_THRESHOLD
                ELSE IF 100 * (lastAmount - baselineMedian)
                            < PRICE_INCREASE_THRESHOLD * baselineMedian THEN <<>>
                ELSE << [ issueType       |-> "price_creep",
                          title           |-> "Recurring charge increased: " \o displayName,
                          severity        |-> severity,
                          impactMin       |-> annualDelta,
                          impactMax       |-> annualDelta,
                          currency        |-> currency,
                          evidenceFactIds |-> IdsOf(sorted),
                          entityName      |-> displayName ] >>
    IN  Pushed([k \in 1..Len(keys) |-> IssueOf(keys[k], FactsOfEntity(grouped, keys[k]))])

detectPriceCreep(fs, options) ==
    LET grouped == MerchantFacts(fs)
        keys    == ByEntityKeys(grouped)
        \* for (const [entityKey, entityFacts] of byEntity)
        IssueOf(entityKey, entityFacts) ==
            LET sorted          == SortByDate(entityFacts)
                baseline        == SubSeq(sorted, 1, Len(sorted) - 1)
                lastOccurrence  == sorted[Len(sorted)]
                baselineAmounts == AbsAmountsOf(baseline)
                baselineMedian  == median(baselineAmounts)
                lastAmount      == Abs(lastOccurrence.amountValue)
                isBaselineStable ==
                    \A k \in 1..Len(baselineAmounts) :
                        100 * Abs(baselineAmounts[k] - baselineMedian)
                            <= BASELINE_STABILITY_THRESHOLD * baselineMedian
                monthlyDelta    == lastAmount - baselineMedian
                annualDelta     == monthlyDelta * 12
                currency        == lastOccurrence.amountCurrency
                severity        == IF annualDelta > HIGH_DELTA_ANNUAL_THRESHOLD THEN "high"
                                   ELSE "medium"
                displayName     == OrElse(sorted[1].entityName, entityKey)
            IN  IF Len(entityFacts) < PRICE_CREEP_MIN_OCCURRENCES THEN <<>>
                ELSE IF baselineMedian = 0 THEN <<>>
                ELSE IF ~isBaselineStable THEN <<>>
                \* percentIncrease < PRICE_INCREASE_THRESHOLD
                ELSE IF 100 * (lastAmount - baselineMedian)
                            < PRICE_INCREASE_THRESHOLD * baselineMedian THEN <<>>
                ELSE << [ issueType       |-> "price_creep",
                          title           |-> "Recurring charge increased: " \o displayName,
                          severity        |-> severity,
                          impactMin       |-> annualDelta,
                          impactMax       |-> annualDelta,
                          currency        |-> currency,
                          evidenceFactIds |-> IdsOf(sorted),
                          entityName      |-> displayName ] >>
    IN  Pushed([k \in 1..Len(keys) |-> IssueOf(keys[k], FactsOfEntity(grouped, keys[k]))])

(***************************************************************************)
(* Bank statements for the bank detectors, after the createFact fixture    *)
(* of the bank detector tests: a merchant, a transfer entity, charges a    *)
(* month apart or on the day of the charge before, and a history of six    *)
(* weekly charges as the spike tests build it.                             *)
(***************************************************************************)

MaxBankFacts == 3
MaxCurrencyFacts == 3

HistoryLength == 6

BankEntities == {"TEST MERCHANT", "ZELLE PAYMENT"}

createBankFact(overrides) ==
    overrides @@
    createFact([ entityName      |-> "Test Merchant",
                 entityRaw       |-> "TEST MERCHANT",
                 entityCanonical |-> "TEST MERCHANT" ])

\* Array.from({ length: 6 }, (_, i) => createFact({ id: `${i + 1}`,
\* dateValue: daysFrom(baseDate, i * 7), ... })): six weekly charges of 40.
History(entity) ==
    [ i \in 1..HistoryLength |->
        createBankFact([ id              |-> ToString(i),
                         entityName      |-> entity,
                         entityRaw       |-> entity,
                         entityCanonical |-> entity,
                         dateValue       |-> daysFrom(0, 7 * (i - 1)),
                         amountValue     |-> 40 ]) ]


(***************************************************************************)
(* Billing detectors: detectors/unpaidInvoiceAging.ts,                     *)
(* recurringPaymentGap.ts, amountDrift.ts and duplicateCharges.ts.  An     *)
(* issue keeps the fields of the bank issues.                              *)
(***************************************************************************)

DEFAULT_AGING_DAYS == 45
GAP_THRESHOLD_DAYS == 45
MIN_PAYMENTS_FOR_PATTERN == 3
DRIFT_MIN_OCCURRENCES == 4
DRIFT_THRESHOLD == 20
STABILITY_THRESHOLD == 10

\* daysBetween of the billing detectors:
\* Math.ceil(Math.abs(d2.getTime() - d1.getTime()) / (1000 * 60 * 60 * 24))
daysApart(date1, date2) == Abs(date2 - date1)

\* getEntityKey of the gap detector, and the key of the drift and the aging
\* detector: fact.entityCanonical || fact.entityName || "_unknown_"
getPaymentEntityKey(fact) ==
    IF ~Falsy(fact.entityCanonical) THEN fact.entityCanonical
    ELSE IF ~Falsy(fact.entityName) THEN fact.entityName
    ELSE "_unknown_"

PaymentKeys(grouped) ==
    KeysInOrder([k \in 1..Len(grouped) |-> getPaymentEntityKey(grouped[k])])

PaymentsOfEntity(grouped, key) ==
    SelectSeq(grouped, LAMBDA f : getPaymentEntityKey(f) = key)

\* entity === "_unknown_" ? null : (first.entityName || entity)
DisplayName(entity, first) ==
    IF entity = "_unknown_" THEN Null ELSE OrElse(first.entityName, entity)

\* detectUnpaidInvoiceAging(facts, agingDays), with the day it runs on for
\* new Date().
detectUnpaidInvoiceAging(fs, agingDays, today) ==
    LET unpaidInvoices ==
            SelectSeq(fs, LAMBDA f : /\ f.factType = "invoice"
                                     /\ f.status = "unpaid"
                                     /\ f.dateValue # NullNum
                                     /\ f.dateType \in {"due", "issued"})
        keys == PaymentKeys(unpaidInvoices)
        IssueOf(entity) ==
            LET invoices    == PaymentsOfEntity(unpaidInvoices, entity)
                aged        == SelectSeq(invoices,
                                   LAMBDA inv : daysApart(inv.dateValue, today) >= agingDays)
                impact      == calculateUnpaidInvoiceImpact(aged)
                oldestDays  == CHOOSE d \in { daysApart(aged[k].dateValue, today) : k \in 1..Len(aged) } :
                                   \A k \in 1..Len(aged) : daysApart(aged[k].dateValue, today) <= d
                displayName == DisplayName(entity, aged[1])
            IN  IF Len(aged) = 0 THEN <<>>
                ELSE << [ issueType       |-> "unpaid_invoice_aging",
                          title           |-> "Aging unpaid invoices for "
                                              \o OrElse(displayName, "unknown entity"),
                          severity        |-> IF oldestDays > 90 THEN "high"
                                              ELSE IF oldestDays > 60 THEN "medium" ELSE "low",
                          impactMin       |-> impact.impactMin,
                          impactMax       |-> impact.impactMax,
                          currency        |-> impact.currency,
                          evidenceFactIds |-> IdsOf(aged),
                          entityName      |-> displayName ] >>
    IN  IF Len(unpaidInvoices) = 0 THEN <<>>
        ELSE Pushed([k \in 1..Len(keys) |-> IssueOf(keys[k])])

\* isMonthlyRecurring(fact, derivedRecurrence), with derived for the
\* derivedRecurrence of the options; a missing option is the empty map,
\* which has a classification for no key either.
isMonthlyRecurring(fact, derived) ==
    IF fact.recurrence = "monthly" THEN TRUE
    ELSE IF fact.recurrence = "one_time"
    THEN LET entityKey == getPaymentEntityKey(fact)
         IN  IF entityKey \in DOMAIN derived
             THEN derived[entityKey].isMonthly
             ELSE FALSE
    ELSE FALSE

\* The gaps of more than GAP_THRESHOLD_DAYS, in the order of the dates:
\* gaps.push({ afterDate, gapDays: days, index: i - 1 }), with index kept
\* 1-based.
GapsOf(sorted) ==
    LET all == [i \in 1..(Len(sorted) - 1) |->
                   [ afterDate |-> sorted[i].dateValue,
                     gapDays   |-> daysApart(sorted[i].dateValue, sorted[i + 1].dateValue),
                     index     |-> i ]]
    IN  SelectSeq(all, LAMBDA g : g.gapDays > GAP_THRESHOLD_DAYS)

\* const lastGap = gaps[gaps.length - 1]
GapOfIssue(gaps) == gaps[Len(gaps)]

detectRecurringPaymentGap(fs, options) ==
    LET derived == options.derivedRecurrence
        monthlyPayments ==
            SelectSeq(fs, LAMBDA f : /\ f.factType = "payment"
                                     /\ isMonthlyRecurring(f, derived)
                                     /\ f.dateValue # NullNum
                                     /\ f.status = "paid")
        keys == PaymentKeys(monthlyPayments)
        IssueOf(entity) ==
            LET payments     == PaymentsOfEntity(monthlyPayments, entity)
                sorted       == SortByDate(payments)
                gaps         == GapsOf(sorted)
                lastGap      == GapOfIssue(gaps)
                monthsMissed == (lastGap.gapDays \div 30) - 1
                paymentsBeforeGap == SubSeq(sorted, 1, lastGap.index)
                impact       == calculatePaymentGapImpact(paymentsBeforeGap, monthsMissed)
                displayName  == DisplayName(entity, sorted[1])
            IN  IF Len(payments) < MIN_PAYMENTS_FOR_PATTERN THEN <<>>
                ELSE IF Len(gaps) = 0 THEN <<>>
                ELSE << [ issueType       |-> "recurring_payment_gap",
                          title           |-> "Recurring payment gap for "
                                              \o OrElse(displayName, "unknown entity"),
                          severity        |-> IF monthsMissed >= 3 THEN "high"
                                              ELSE IF monthsMissed >= 2 THEN "medium" ELSE "low",
                          impactMin       |-> impact.impactMin,
                          impactMax       |-> impact.impactMax,
                          currency        |-> impact.currency,
                          evidenceFactIds |-> IdsOf(sorted),
                          entityName      |-> displayName ] >>
    IN  IF Len(monthlyPayments) < MIN_PAYMENTS_FOR_PATTERN THEN <<>>
        ELSE Pushed([k \in 1..Len(keys) |-> IssueOf(keys[k])])

\* detectAmountDrift(facts).  The comparisons of the double num / den with
\* percent / 100 are made on whole num and den: the quotient is NaN for
\* 0 / 0, which compares false, and an infinity for den = 0.
detectAmountDrift(fs) ==
    LET IsNaN(num, den) == den = 0 /\ num = 0
        RatioAbove(num, den, percent) ==
            IF den > 0 THEN 100 * num > percent * den
            ELSE IF den < 0 THEN 100 * num < percent * den
            ELSE num > 0
        RatioBelow(num, den, percent) ==
            IF den > 0 THEN 100 * num < percent * den
            ELSE IF den < 0 THEN 100 * num > percent * den
            ELSE num < 0
        RatioAtLeast(num, den, percent) ==
            IF den > 0 THEN 100 * num >= percent * den
            ELSE IF den < 0 THEN 100 * num <= percent * den
            ELSE num > 0
        monthlyPayments ==
            SelectSeq(fs, LAMBDA f : /\ f.factType = "payment"
                                     /\ f.recurrence = "monthly"
                                     /\ f.dateValue # NullNum
                                     /\ f.amountValue # NullNum)
        keys == PaymentKeys(monthlyPayments)
        IssueOf(entity) ==
            LET payments      == PaymentsOfEntity(monthlyPayments, entity)
                sorted        == SortByDate(payments)
                amounts       == AmountsOf(sorted)
                priorAmounts  == SubSeq(amounts, 1, Len(amounts) - 2)
                recentAmounts == SubSeq(amounts, Len(amounts) - 1, Len(amounts))
                priorMedian   == median(priorAmounts)
                \* maxPriorDeviation > STABILITY_THRESHOLD; Math.max is NaN as
                \* soon as one deviation is
                unstable      ==
                    /\ \A k \in 1..Len(priorAmounts) :
                           ~IsNaN(Abs(priorAmounts[k] - priorMedian), priorMedian)
                    /\ \E k \in 1..Len(priorAmounts) :
                           RatioAbove(Abs(priorAmounts[k] - priorMedian), priorMedian,
                                      STABILITY_THRESHOLD)
                recentAvg     == (recentAmounts[1] + recentAmounts[2]) \div 2
                \* drift = (priorMedian - recentAvg) / priorMedian
                AtLeast(percent) == RatioAtLeast(priorMedian - recentAvg, priorMedian, percent)
                impact        == calculateDriftImpact(sorted, priorMedian, recentAvg)
                displayName   == DisplayName(entity, sorted[1])
            IN  IF Len(payments) < DRIFT_MIN_OCCURRENCES THEN <<>>
                ELSE IF unstable THEN <<>>
                ELSE IF RatioBelow(priorMedian - recentAvg, priorMedian, DRIFT_THRESHOLD)
                THEN <<>>
                ELSE << [ issueType       |-> "amount_drift",
                          title           |-> "Payment amount decreased for "
                                              \o OrElse(displayName, "unknown entity"),
                          severity        |-> IF AtLeast(40) THEN "high"
                                              ELSE IF AtLeast(30) THEN "medium" ELSE "low",
                          impactMin       |-> impact.impactMin,
                          impactMax       |-> impact.impactMax,
                          currency        |-> impact.currency,
                          evidenceFactIds |-> IdsOf(sorted),
                          entityName      |-> displayName ] >>
    IN  IF Len(monthlyPayments) < DRIFT_MIN_OCCURRENCES THEN <<>>
        ELSE Pushed([k \in 1..Len(keys) |-> IssueOf(keys[k])])

\* The key without the amount.
PaymentDuplicateKey_EntityAndDate(payment) ==
    <<OrElse(payment.entityName, "_unknown_"), payment.dateValue>>

\* const key = `${payment.entityName || "_unknown_"}|${payment.dateValue}|${payment.amountValue}`
PaymentDuplicateKey(payment) ==
    <<OrElse(payment.entityName, "_unknown_"), payment.dateValue, payment.amountValue>>

detectDuplicateCharges(fs) ==
    LET payments == SelectSeq(fs, LAMBDA f : /\ f.factType = "payment"
                                             /\ f.dateValue # NullNum
                                             /\ f.amountValue # NullNum)
        keys     == KeysInOrder([k \in 1..Len(payments) |-> PaymentDuplicateKey(payments[k])])
        IssueOf(key) ==
            LET group  == SelectSeq(payments, LAMBDA f : PaymentDuplicateKey(f) = key)
                entity == key[1]
                impact == calculateDuplicateImpact(group)
            IN  IF Len(group) < 2 THEN <<>>
                ELSE << [ issueType       |-> "duplicate_charge",
                          title           |-> "Possible duplicate charges for "
                                              \o (IF entity = "_unknown_" THEN "unknown entity"
                                                  ELSE entity),
                          severity        |-> "low",
                          impactMin       |-> impact.impactMin,
                          impactMax       |-> impact.impactMax,
                          currency        |-> impact.currency,
                          evidenceFactIds |-> IdsOf(group),
                          entityName      |-> IF entity = "_unknown_" THEN Null ELSE entity ] >>
    IN  IF Len(payments) < 2 THEN <<>>
        ELSE Pushed([k \in 1..Len(keys) |-> IssueOf(keys[k])])

(***************************************************************************)
(* Ledgers for the billing detectors, after the fixtures of the billing    *)
(* detector tests: f([...]) derives entityRaw and entityCanonical from the *)
(* entityName.                                                             *)
(***************************************************************************)

MaxGapFacts == 2
MaxRecurrenceFacts == 2
MaxDuplicateFacts == 3
MaxInvoiceFacts == 3
MaxKeyFacts == 2
MaxMedianFacts == 2
MaxInsightFacts == 3
MaxCreepFacts == 2

\* entityCanonical: fact.entityName?.toUpperCase() || null
createPayment(overrides) ==
    LET name == IF "entityName" \in DOMAIN overrides THEN overrides.entityName ELSE "Client A"
    IN  overrides @@
        [ id              |-> "1",
          factType        |-> "payment",
          entityName      |-> name,
          entityRaw       |-> name,
          entityCanonical |-> IF Falsy(name) THEN Null ELSE toUpperCase(name),
          amountValue     |-> 500,
          amountCurrency  |-> "USD",
          dateValue       |-> 0,
          dateType        |-> "paid",
          status          |-> "paid",
          recurrence      |-> "monthly",
          direction       |-> "unknown",
          clearingStatus  |-> "unknown" ]

\* Four payments of 8500 in consecutive months, on a bank statement when
\* they carry a direction.
MonthlyHistory(recurrence, direction, clearingStatus) ==
    LET \* monthDate(2024, 1), ..., monthDate(2024, 4) as days from 2024-01-15
        ConsecutiveMonths == <<0, 31, 60, 91>>
    IN
    [ i \in 1..Len(ConsecutiveMonths) |->
        createPayment([ id             |-> ToString(i),
                        entityName     |-> "ACME",
                        amountValue    |-> 8500,
                        dateValue      |-> ConsecutiveMonths[i],
                        recurrence     |-> recurrence,
                        direction      |-> direction,
                        clearingStatus |-> clearingStatus ]) ]

\* The date of the last entry of the ledger.
LastDate(fs) == IF fs = <<>> THEN 0 ELSE fs[Len(fs)].dateValue

\* The entityCanonical, entityRaw and entityName of the facts of a client:
\* all three alike, the raw description as the name with its canonical form
\* (entity_raw: f.entity_name, entity_canonical: canonicalizeEntity(...)),
\* no canonical form with a raw description that differs from the name,
\* and the name alone.
EntityIdentities ==
    { [entityCanonical |-> "ACME", entityRaw |-> "ACME", entityName |-> "ACME"],
      [entityCanonical |-> "ACME", entityRaw |-> "Acme Corp", entityName |-> "Acme Corp"],
      [entityCanonical |-> Null, entityRaw |-> "ACME CORP", entityName |-> "Acme"],
      [entityCanonical |-> Null, entityRaw |-> Null, entityName |-> "Acme"] }

Recurrences == {"monthly", "one_time", "unknown", "quarterly", "annual"}

\* The day the analysis runs on, in days from 2024-01-15.
Today == 200

\* The entries a statement or ledger of the suite s may go on with after
\* the entries fs.
LedgerFacts(s, fs) ==
    LET \* The next charge of a statement falls a month after the one before or on
        \* the same day.
        BankDays == { daysFrom(0, 30 * (Len(fs) + 1)), daysFrom(0, 30 * Len(fs)) }

        BankFacts ==
            { createBankFact([ id              |-> ToString(Len(fs) + 1),
                               entityName      |-> e,
                               entityRaw       |-> e,
                               entityCanonical |-> e,
                               dateValue       |-> d,
                               amountValue     |-> a ]) :
                  e \in BankEntities, d \in BankDays, a \in {40, 100} }

        \* Charges of one merchant in dollars, in euros and without a currency.
        CurrencyFacts ==
            { createBankFact([ id             |-> ToString(Len(fs) + 1),
                               dateValue      |-> d,
                               amountValue    |-> p[1],
                               amountCurrency |-> p[2] ]) :
                  d \in BankDays,
                  p \in { <<40, "USD">>, <<100, "USD">>, <<100, "EUR">>, <<100, Null>> } }

        \* The next payment of the client of the ledger, on the day of the last or
        \* 92 days after it, under one of the identities.
        KeyFacts ==
            { e @@ createPayment([ id             |-> ToString(Len(fs) + 1),
                                   amountValue    |-> 8500,
                                   dateValue      |-> daysFrom(LastDate(fs), g),
                                   recurrence     |-> r,
                                   direction      |-> "outflow",
                                   clearingStatus |-> "cleared" ]) :
                  e \in EntityIdentities, g \in {0, 92}, r \in {"monthly", "one_time"} }

        \* The next payment of ACME, 30 to 125 days after the last: the regular
        \* one, a lower one, one in euros and one without a stored monthly
        \* recurrence.
        GapFacts ==
            { createPayment(o @@ [ id             |-> ToString(Len(fs) + 1),
                                   entityName     |-> "ACME",
                                   amountValue    |-> 8500,
                                   dateValue      |-> daysFrom(LastDate(fs), g),
                                   direction      |-> "outflow",
                                   clearingStatus |-> "cleared" ]) :
                  g \in {30, 50, 75, 92, 125},
                  o \in { [recurrence |-> "monthly"],
                          [recurrence |-> "monthly", amountValue |-> 6000],
                          [recurrence |-> "monthly", amountCurrency |-> "EUR"],
                          [recurrence |-> "one_time"] } }

        RecurrenceFacts ==
            { createPayment([ id             |-> ToString(Len(fs) + 1),
                              entityName     |-> "ACME",
                              amountValue    |-> a,
                              dateValue      |-> daysFrom(LastDate(fs), g),
                              recurrence     |-> r,
                              direction      |-> fs[1].direction,
                              clearingStatus |-> fs[1].clearingStatus ]) :
                  a \in {8500, 6800}, g \in {30, 92}, r \in Recurrences \ {"annual"} }

        \* Payments of two clients on 2024-01-15 and the day after, and entries
        \* that are no payment with a date and an amount.
        DuplicateFacts ==
            { createPayment([ id          |-> ToString(Len(fs) + 1),
                              entityName  |-> e,
                              amountValue |-> a,
                              dateValue   |-> d,
                              recurrence  |-> "one_time" ]) :
                  e \in {"Client A", "Client B"}, a \in {100, 200}, d \in {0, 1} }
            \cup { createPayment(o @@ [ id          |-> ToString(Len(fs) + 1),
                                        amountValue |-> 100,
                                        recurrence  |-> "one_time" ]) :
                       o \in { [amountCurrency |-> "EUR"],
                               [amountCurrency |-> Null],
                               [factType |-> "invoice", status |-> "unpaid", dateType |-> "due"],
                               [amountValue |-> NullNum],
                               [dateValue |-> NullNum],
                               [entityName |-> Null] } }

        \* The next entry of a ledger or statement of one entity a month after the
        \* last: like the first but for its amount, which may be 0.
        MedianFacts ==
            { [ id          |-> ToString(Len(fs) + 1),
                dateValue   |-> daysFrom(LastDate(fs), 30),
                amountValue |-> a ] @@ fs[1] : a \in {0, 40, 100, 6000} }

        \* The next invoice: of Acme, unpaid and due n days before the day of the
        \* analysis (n = -60: due in 60 days), or one of the invoices that differ in
        \* date type, status, currency or amount; and an unpaid invoice of a second
        \* client.
        InvoiceFacts ==
            LET invoice(o) == createPayment(o @@ [ id          |-> ToString(Len(fs) + 1),
                                                   factType    |-> "invoice",
                                                   entityName  |-> "Acme",
                                                   amountValue |-> 1000,
                                                   dateValue   |-> Today - 50,
                                                   dateType    |-> "due",
                                                   status      |-> "unpaid",
                                                   recurrence  |-> "one_time" ])
            IN  { invoice([dateValue |-> Today - n]) : n \in {44, 45, 61, 91, -60} }
                \cup { invoice(o) : o \in { [dateType |-> "issued"],
                                            [dateType |-> "paid"],
                                            [status |-> "paid"],
                                            [amountCurrency |-> "EUR"],
                                            [amountValue |-> NullNum],
                                            [entityName |-> "Other"] } }
        \* The next charge of a second merchant, a month after the last entry:
        \* in dollars, in euros or without a currency.
        InsightFacts ==
            { createBankFact([ id              |-> ToString(Len(fs) + 1),
                               entityName      |-> "Spotify",
                               entityRaw       |-> "SPOTIFY",
                               entityCanonical |-> "SPOTIFY",
                               dateValue       |-> daysFrom(LastDate(fs), 30),
                               amountValue     |-> a,
                               amountCurrency  |-> c ]) :
                  a \in {10, 12}, c \in {"USD", "EUR", Null} }

        \* The next charge of the merchant a month after the last: the amount
        \* of before, or one 10%, 15% or 20% above 40 or 100.
        CreepFacts ==
            { createBankFact([ id          |-> ToString(Len(fs) + 1),
                               dateValue   |-> daysFrom(LastDate(fs), 30),
                               amountValue |-> a ]) :
                  a \in {40, 44, 46, 100, 110, 120} }

    IN  CASE s = "bank"       -> BankFacts
          [] s = "currency"   -> CurrencyFacts
          [] s = "gap"        -> GapFacts
          [] s = "recurrence" -> RecurrenceFacts
          [] s = "duplicates" -> DuplicateFacts
          [] s = "invoices"   -> InvoiceFacts
          [] s = "keys"       -> KeyFacts
          [] s = "medians"    -> MedianFacts
          [] s = "insights"   -> InsightFacts
          [] s = "creep"      -> CreepFacts

(***************************************************************************)
(* detectors/bank/insights.ts.  The insights keep recurringMerchantCount,  *)
(* recurringMerchants, totalMonthlyRecurring, recurringCurrency,           *)
(* canSumRecurring, totalTransactions and totalOutflows; the date range is *)
(* left out.  The entries of derivedRecurrence come in the order in which  *)
(* classifyMonthlyByEntity met their keys in the facts.                    *)
(***************************************************************************)

generateBankInsights(fs, derived) ==
    LET outflows == SelectSeq(fs, LAMBDA f : /\ f.direction = "outflow"
                                             /\ f.clearingStatus = "cleared"
                                             /\ f.amountValue # NullNum)
        \* for (const [entityKey, classification] of derivedRecurrence)
        keys     == SelectSeq(KeysInOrder([k \in 1..Len(fs) |-> getEntityKey(fs[k])]),
                              LAMBDA key : derived[key].isMonthly)
        Merchant(entityKey) ==
            LET entityFacts == FactsOfEntity(outflows, entityKey)
                first       == FactsOfEntity(fs, entityKey)[1]
            IN  [ name          |-> OrElse(first.entityName, entityKey),
                  monthlyAmount |-> derived[entityKey].medianAmount,
                  \* entityFacts[0]?.amountCurrency || null
                  currency      |-> IF entityFacts = <<>> \/ Falsy(entityFacts[1].amountCurrency)
                                    THEN Null
                                    ELSE entityFacts[1].amountCurrency,
                  occurrences   |-> derived[entityKey].evidenceCount ]
        pushed     == [k \in 1..Len(keys) |-> Merchant(keys[k])]
        currencies == { pushed[k].currency : k \in 1..Len(pushed) } \ {Null}
        \* m.monthlyAmount || 0
        Amount(m)  == IF m.monthlyAmount = NullNum THEN 0 ELSE m.monthlyAmount
        \* recurringMerchants.sort((a, b) => (b.monthlyAmount || 0) - (a.monthlyAmount || 0))
        Before(i, j) == \/ Amount(pushed[i]) > Amount(pushed[j])
                        \/ Amount(pushed[i]) = Amount(pushed[j]) /\ i < j
        recurringMerchants ==
            [ n \in 1..Len(pushed) |->
                pushed[CHOOSE i \in 1..Len(pushed) :
                           Cardinality({ j \in 1..Len(pushed) : Before(j, i) }) = n - 1] ]
        canSumRecurring ==
            /\ Len(recurringMerchants) > 0
            /\ Cardinality(currencies) = 1
            /\ \A k \in 1..Len(recurringMerchants) :
                   recurringMerchants[k].monthlyAmount # NullNum
        \* recurringMerchants.reduce((sum, m) => sum + (m.monthlyAmount || 0), 0)
        sum[n \in 0..Len(recurringMerchants)] ==
            IF n = 0 THEN 0 ELSE sum[n - 1] + Amount(recurringMerchants[n])
    IN  [ recurringMerchantCount |-> Len(recurringMerchants),
          recurringMerchants     |-> recurringMerchants,
          totalMonthlyRecurring  |-> IF canSumRecurring THEN sum[Len(recurringMerchants)]
                                     ELSE NullNum,
          recurringCurrency      |-> IF canSumRecurring THEN recurringMerchants[1].currency
                                     ELSE Null,
          canSumRecurring        |-> canSumRecurring,
          totalTransactions      |-> Len(fs),
          totalOutflows          |-> Len(outflows) ]

(***************************************************************************)
(* runAnalysis up to the detectors, on a bank statement (the suites "bank" *)
(* and "currency", in bank mode) or on a ledger (the other suites, in      *)
(* billing mode).  facts starts as a history and grows entry by entry.     *)
(***************************************************************************)

InitLedger(s) ==
    /\ suite = s
    /\ facts \in
         (CASE s = "bank"       -> {<<>>} \cup { History(e) : e \in BankEntities }
            [] s = "currency"   -> {<<>>, History("TEST MERCHANT")}
            [] s = "gap"        -> { <<>>, MonthlyHistory("monthly", "outflow", "cleared"),
                                     MonthlyHistory("one_time", "outflow", "cleared") }
            [] s = "recurrence" -> { MonthlyHistory(r, "outflow", "cleared") : r \in Recurrences }
                                   \cup { MonthlyHistory(r, "unknown", "unknown") :
                                              r \in Recurrences }
            [] s = "duplicates" -> {<<>>}
            [] s = "invoices"   -> {<<>>}
            [] s = "medians"    ->
                   { [ i \in 1..4 |-> [amountValue |-> a]
                                        @@ MonthlyHistory("monthly", "unknown", "unknown")[i] ] :
                         a \in {0, 8500} }
                   \cup { [ i \in 1..HistoryLength |-> [amountValue |-> a]
                                                       @@ History("TEST MERCHANT")[i] ] :
                              a \in {0, 40} }
            [] s = "insights"   ->
                   { <<>>,
                     [ i \in 1..3 |-> createBankFact([ id              |-> ToString(i),
                                                       entityName      |-> "Netflix",
                                                       entityRaw       |-> "NETFLIX",
                                                       entityCanonical |-> "NETFLIX",
                                                       dateValue       |-> daysFrom(0, 30 * (i - 1)),
                                                       amountValue     |-> 16 ]) ] }
            [] s = "keys"       -> { [ i \in 1..4 |->
                                         e @@ MonthlyHistory(r, "outflow", "cleared")[i] ] :
                                         e \in EntityIdentities, r \in {"monthly", "one_time"} }
            \* three charges of 40 or of 100 a month apart, or the six weekly ones
            [] s = "creep"      ->
                   { [ i \in 1..3 |-> createBankFact([ id          |-> ToString(i),
                                                       dateValue   |-> daysFrom(0, 30 * (i - 1)),
                                                       amountValue |-> a ]) ] :
                         a \in {40, 100} }
                   \cup {History("TEST MERCHANT")})
    /\ args = IF s \in {"bank", "currency", "insights", "creep"} THEN [history |-> Len(facts)]
              ELSE [history |-> Len(facts), today |-> Today]
    /\ forceScanMode = IF s \in {"bank", "currency", "insights", "creep"} THEN "bank"
                       ELSE IF s = "medians" THEN Null ELSE "billing"
    /\ scanMode = Null
    /\ prune = <<>>
    /\ rawIssues = <<>>
    /\ pruneOptions = <<>>
    /\ pruneResult = EmptyResult
    /\ derivedRecurrence = <<>>
    /\ impactResult = Null
    /\ exclusion = Null
    /\ bankInsights = Null
    /\ pc = "facts"

\* One more entry on the statement or ledger.
AddLedgerFact ==
    /\ pc = "facts"
    /\ Len(facts) - args.history <
         (CASE suite = "bank"       -> MaxBankFacts
            [] suite = "currency"   -> MaxCurrencyFacts
            [] suite = "gap"        -> MaxGapFacts
            [] suite = "recurrence" -> MaxRecurrenceFacts
            [] suite = "duplicates" -> MaxDuplicateFacts
            [] suite = "invoices"   -> MaxInvoiceFacts
            [] suite = "keys"       -> MaxKeyFacts
            [] suite = "medians"    -> MaxMedianFacts
            [] suite = "insights"   -> MaxInsightFacts
            [] suite = "creep"      -> MaxCreepFacts)
    /\ \E fact \in LedgerFacts(suite, facts) :
           facts' = Append(facts, fact)
    /\ UNCHANGED <<suite, forceScanMode, prune, rawIssues, scanMode, pruneOptions,
                   pruneResult, pc, derivedRecurrence, impactResult, exclusion, args,
                   bankInsights>>

\* const scanMode = options.forceScanMode || detectScanMode(facts);
\* const derivedRecurrence = classifyMonthlyByEntity(facts);
\* if (scanMode === "bank") { bankInsights = generateBankInsights(facts, derivedRecurrence);
\*                            rawIssues.push(...newRecurring); ... }
\* else { rawIssues.push(...unpaidAging); ... rawIssues.push(...duplicates); }
RunDetectors ==
    /\ pc = "facts"
    /\ scanMode' = SelectScanMode(forceScanMode, facts)
    /\ derivedRecurrence' = classifyMonthlyByEntity(facts)
    /\ bankInsights' = IF scanMode' = "bank"
                       THEN generateBankInsights(facts, derivedRecurrence')
                       ELSE Null
    /\ rawIssues' =
           IF scanMode' = "bank"
           THEN LET options      == [derivedRecurrence |-> derivedRecurrence',
                                     datasetEndDate |-> NullNum]
                    newRecurring == detectNewRecurringCharge(facts, options)
                    priceCreep   == detectPriceCreep(facts, options)
                    duplicates   == detectBankDuplicateCharges(facts)
                    spikes       == detectUnusualSpike(facts)
                IN  newRecurring \o priceCreep \o duplicates \o spikes
           ELSE LET unpaidAging  == detectUnpaidInvoiceAging(facts, DEFAULT_AGING_DAYS,
                                                             args.today)
                    paymentGaps  == detectRecurringPaymentGap(
                                        facts, [derivedRecurrence |-> derivedRecurrence'])
                    amountDrifts == detectAmountDrift(facts)
                    duplicates   == detectDuplicateCharges(facts)
                IN  unpaidAging \o paymentGaps \o amountDrifts \o duplicates
    /\ pc' = "detected"
    /\ UNCHANGED <<suite, facts, forceScanMode, prune, pruneOptions, pruneResult,
                   impactResult, exclusion, args>>

NextDetectors == AddLedgerFact \/ RunDetectors

SpecBank == InitLedger("bank") /\ [][NextDetectors]_vars

SpecBankCurrency == InitLedger("currency") /\ [][NextDetectors]_vars

SpecGap == InitLedger("gap") /\ [][NextDetectors]_vars

SpecRecurrence == InitLedger("recurrence") /\ [][NextDetectors]_vars

SpecDuplicates == InitLedger("duplicates") /\ [][NextDetectors]_vars

SpecKeys == InitLedger("keys") /\ [][NextDetectors]_vars

SpecInvoices == InitLedger("invoices") /\ [][NextDetectors]_vars

\* The scan mode found by detectScanMode: a ledger or a bank statement.
SpecMedians == InitLedger("medians") /\ [][NextDetectors]_vars

SpecInsights == InitLedger("insights") /\ [][NextDetectors]_vars

\* Charges of one merchant that rise by 10% to 20%.
SpecCreep == InitLedger("creep") /\ [][NextDetectors]_vars

\* Every detector on every ledger and on the bank statement.
SpecDetectors ==
    (\E s \in {"bank", "gap", "recurrence", "duplicates", "invoices"} : InitLedger(s))
    /\ [][NextDetectors]_vars


(***************************************************************************)
(* canonicalizeEntity.ts.  A description is a text of words of letters or  *)
(* of digits with blanks between them, in either case: it has no           *)
(* punctuation and no number of one or two digits, so that the early date  *)
(* patterns, the punctuation step, the patterns with # and *, the          *)
(* space-separated date pattern and step 12 find nothing to replace.       *)
(* Between its steps the text is held as its list of words, which is what  *)
(* replace(/\s+/g, " ").trim() leaves of it.                               *)
(***************************************************************************)

canonicalizeEntity(raw) ==
    LET ENTITY_SUFFIXES ==
            << "INC", "INCORPORATED", "LLC", "LTD", "LIMITED", "CO", "CORP", "CORPORATION",
               "COMPANY", "THE", "NA", "LP", "LLP", "PC", "PLLC", "PA", "INTL",
               "INTERNATIONAL", "USA", "US" >>
        TRAILING_NOISE_WORDS == << "LOC", "BRANCH", "LOCATION" >>
        TRANSACTION_TOKENS ==
            { "POS", "DEBIT", "CREDIT", "ACH", "ONLINE", "PURCHASE", "PAYMENT", "TRANSFER",
              "ATM", "CARD", "CHECK", "CHK", "REF", "VISA", "MASTERCARD", "MC", "AMEX",
              "DISCOVER", "CHECKCARD", "RECURRING", "AUTOPAY", "BILLPAY", "WIRE", "MOBILE",
              "WEB", "WITHDRAWAL", "DEPOSIT", "DIRECT", "DEP", "WD", "DR", "CR", "DDA",
              "MEMO", "EFT", "ELECTRONIC", "PREAUTHORIZED", "PREAUTH", "AUTH", "AUTHORIZED",
              "PENDING", "POSTED", "CLEARED", "TRANSACTION", "TXN", "EXTERNAL", "INTERNAL",
              "SQ", "PP", "TST", "ORIG", "ORIGINATOR" }
        PAYMENT_SERVICE_PREFIXES == << "PAYPAL", "VENMO", "ZELLE" >>
        stateCodes ==
            { "AL", "AK", "AZ", "AR", "CA", "CO", "CT", "DE", "FL", "GA", "HI", "ID", "IL",
              "IN", "IA", "KS", "KY", "LA", "ME", "MD", "MA", "MI", "MN", "MS", "MO", "MT",
              "NE", "NV", "NH", "NJ", "NM", "NY", "NC", "ND", "OH", "OK", "OR", "PA", "RI",
              "SC", "SD", "TN", "TX", "UT", "VT", "VA", "WA", "WV", "WI", "WY", "DC" }
        IsSuffix(w) == \E i \in 1..Len(ENTITY_SUFFIXES) : ENTITY_SUFFIXES[i] = w
        \* /^\d+$/.test(w)
        IsNumber(w) ==
            /\ Len(w) > 0
            /\ \A i \in 1..Len(w) : \E d \in 1..10 : CharAt("0123456789", d) = CharAt(w, i)
        \* the words of a text: text.replace(/\s+/g, " ").trim().split(" ")
        split(text) ==
            LET blanks == { i \in 1..Len(text) : CharAt(text, i) = " " }
                starts == { i \in (1..Len(text)) \ blanks : i = 1 \/ (i - 1) \in blanks }
                EndOf(i) == CHOOSE j \in i..Len(text) :
                                /\ \A k \in i..j : k \notin blanks
                                /\ j = Len(text) \/ (j + 1) \in blanks
                word[n \in 0..Len(text)] ==
                    IF n = 0 THEN <<>>
                    ELSE IF n \in starts THEN Append(word[n - 1], SubSeq(text, n, EndOf(n)))
                    ELSE word[n - 1]
            IN  word[Len(text)]
        \* words.join(" ")
        join(words) ==
            LET text[n \in 0..Len(words)] ==
                    IF n = 0 THEN ""
                    ELSE IF n = 1 THEN words[1]
                    ELSE text[n - 1] \o " " \o words[n]
            IN  text[Len(words)]
        \* the words left when those at the positions of D are replaced by " "
        Without(words, D) ==
            LET kept   == (1..Len(words)) \ D
                Nth(n) == CHOOSE i \in kept : Cardinality({ j \in kept : j <= i }) = n
            IN  [ n \in 1..Cardinality(kept) |-> words[Nth(n)] ]
        \* Step 5: /\bBILL\s+PAY\b/gi, then every TRANSACTION_TOKENS word
        Step5(words) ==
            LET noBillPay ==
                    Without(words,
                            { i \in 1..Len(words) :
                                \/ i < Len(words) /\ words[i] = "BILL" /\ words[i + 1] = "PAY"
                                \/ i > 1 /\ words[i - 1] = "BILL" /\ words[i] = "PAY" })
            IN  Without(noBillPay,
                        { i \in 1..Len(noBillPay) : noBillPay[i] \in TRANSACTION_TOKENS })
        \* Step 6: for (const service of PAYMENT_SERVICE_PREFIXES), from the
        \* i-th on: new RegExp(`^${service}\\s+(?=\\S)`, "gi")
        Step6(words) ==
            LET result[i \in 0..Len(PAYMENT_SERVICE_PREFIXES)] ==
                    IF i = 0 THEN words
                    ELSE IF Len(result[i - 1]) >= 2
                            /\ result[i - 1][1] = PAYMENT_SERVICE_PREFIXES[i]
                         THEN Tail(result[i - 1])
                         ELSE result[i - 1]
            IN  result[Len(PAYMENT_SERVICE_PREFIXES)]
        \* Step 7: for (const suffix of ENTITY_SUFFIXES): endRegex, then midRegex
        Step7(words) ==
            LET AtEnd(ws, suffix) ==
                    IF ws # <<>> /\ ws[Len(ws)] = suffix THEN SubSeq(ws, 1, Len(ws) - 1)
                    ELSE ws
                InMid(ws, suffix) ==
                    Without(ws, { k \in 1..(Len(ws) - 1) :
                                      ws[k] = suffix /\ IsSuffix(ws[k + 1]) })
                \* the loop from the i-th suffix on
                RECURSIVE From(_, _)
                From(ws, i) ==
                    IF i > Len(ENTITY_SUFFIXES) \/ ws = <<>> THEN ws
                    ELSE From(InMid(AtEnd(ws, ENTITY_SUFFIXES[i]), ENTITY_SUFFIXES[i]), i + 1)
            IN  From(words, 1)
        \* Step 8: LOCATION_PATTERNS, one after the other.  open holds whether
        \* the text still ends with its last word: a pattern that replaces
        \* the last word leaves a blank there, and /\b\d{3,4}$/ finds nothing.
        Step8(words) ==
            LET \* a word followed by digits: /\bSTORE\s+\d+/gi, /\bLOC\s*#?\d+/gi, ...
                Numbered(ws, word) ==
                    { i \in 1..Len(ws) :
                        \/ i < Len(ws) /\ ws[i] = word /\ IsNumber(ws[i + 1])
                        \/ i > 1 /\ ws[i - 1] = word /\ IsNumber(ws[i]) }
                \* /\b[A-Z]{2}\s+\d{4,}/g
                StateAndNumber(ws) ==
                    LET Code(w) == Len(w) = 2 /\ ~IsNumber(CharAt(w, 1))
                                              /\ ~IsNumber(CharAt(w, 2))
                        Long(w) == IsNumber(w) /\ Len(w) >= 4
                    IN  { i \in 1..Len(ws) :
                            \/ i < Len(ws) /\ Code(ws[i]) /\ Long(ws[i + 1])
                            \/ i > 1 /\ Code(ws[i - 1]) /\ Long(ws[i]) }
                \* /\b\d{5,}\b/g
                LongIds(ws) == { i \in 1..Len(ws) : IsNumber(ws[i]) /\ Len(ws[i]) >= 5 }
                Replace(s, D) == [ words |-> Without(s.words, D),
                                   open  |-> s.open /\ Len(s.words) \notin D ]
                store    == Replace([words |-> words, open |-> words # <<>>],
                                    Numbered(words, "STORE"))
                loc      == Replace(store, Numbered(store.words, "LOC"))
                branch   == Replace(loc, Numbered(loc.words, "BRANCH"))
                location == Replace(branch, Numbered(branch.words, "LOCATION"))
                state    == Replace(location, StateAndNumber(location.words))
                ids      == Replace(state, LongIds(state.words))
                last     == ids.words[Len(ids.words)]
            IN  \* /\b\d{3,4}$/
                IF ids.open /\ IsNumber(last) /\ Len(last) \in {3, 4}
                THEN SubSeq(ids.words, 1, Len(ids.words) - 1)
                ELSE ids.words
        \* Step 9: DATE_PATTERNS: /\b\d{6,8}\b/g, /\b0[1-9]\d{2}\b/g, /\b1[0-2]\d{2}\b/g
        Step9(words) ==
            Without(words,
                    { i \in 1..Len(words) :
                        /\ IsNumber(words[i])
                        /\ \/ Len(words[i]) \in 6..8
                           \/ /\ Len(words[i]) = 4
                              /\ CharAt(words[i], 1) = "0"
                              /\ CharAt(words[i], 2) # "0"
                           \/ /\ Len(words[i]) = 4
                              /\ CharAt(words[i], 1) = "1"
                              /\ CharAt(words[i], 2) \in {"0", "1", "2"} })
        \* Step 10: for (const word of TRAILING_NOISE_WORDS)
        Step10(words) ==
            LET result[i \in 0..Len(TRAILING_NOISE_WORDS)] ==
                    IF i = 0 THEN words
                    ELSE IF result[i - 1] # <<>>
                            /\ result[i - 1][Len(result[i - 1])] = TRAILING_NOISE_WORDS[i]
                         THEN SubSeq(result[i - 1], 1, Len(result[i - 1]) - 1)
                         ELSE result[i - 1]
            IN  result[Len(TRAILING_NOISE_WORDS)]
        \* Step 11: a city and a state code at the end
        Step11(words) ==
            IF /\ Len(words) > 2
               /\ words[Len(words)] \in stateCodes
               /\ Len(words[Len(words) - 1]) >= 5
            THEN SubSeq(words, 1, Len(words) - 2)
            ELSE words
        \* Step 13: /^(THE|A|AN)\s+/i
        Step13(words) ==
            IF Len(words) >= 2 /\ words[1] \in {"THE", "A", "AN"} THEN Tail(words)
            ELSE words
        Checked(result) ==
            IF result = "" \/ Len(result) < 2 \/ IsNumber(result) THEN Null
            ELSE result
    IN  IF Falsy(raw) \/ split(raw) = <<>> THEN Null
        ELSE Checked(join(Step13(Step11(Step10(Step9(Step8(Step7(Step6(Step5(
                 split(toUpperCase(raw))))))))))))

(***************************************************************************)
(* A caller of canonicalizeEntity, as the extraction of a bank CSV row is: *)
(* a raw description put together from words, and its canonical form.      *)
(***************************************************************************)

MaxTokens == 3

InitCanonicalize ==
    /\ suite = "canonicalize"
    /\ facts = <<>>
    /\ forceScanMode = Null
    /\ prune = <<>>
    /\ rawIssues = <<>>
    /\ scanMode = Null
    /\ pruneOptions = <<>>
    /\ pruneResult = EmptyResult
    /\ pc = "text"
    /\ derivedRecurrence = <<>>
    /\ impactResult = Null
    /\ exclusion = Null
    /\ bankInsights = Null
    /\ \E raw \in {Null, ""} :
           args = [tokens |-> 0, entityRaw |-> raw, entityCanonical |-> Null]

\* The description has one more word.
AddToken ==
    /\ pc = "text"
    /\ args.entityRaw # Null
    /\ args.tokens < MaxTokens
    /\ \E word \in { "Acme ", "Corp ", "CO ", "Inc ", "The ", "POS ", "PayPal ", "VENMO ",
                     "Branch ", "12345 ", "123 ", "Anytown ", "CA " } :
           args' = [args EXCEPT !.tokens = @ + 1, !.entityRaw = @ \o word]
    /\ UNCHANGED <<suite, facts, forceScanMode, prune, rawIssues, scanMode, pruneOptions,
                   pruneResult, pc, derivedRecurrence, impactResult, exclusion,
                   bankInsights>>

\* entityCanonical: canonicalizeEntity(description)
CallCanonicalizeEntity ==
    /\ pc = "text"
    /\ args' = [args EXCEPT !.entityCanonical = canonicalizeEntity(args.entityRaw)]
    /\ pc' = "canonical"
    /\ UNCHANGED <<suite, facts, forceScanMode, prune, rawIssues, scanMode, pruneOptions,
                   pruneResult, derivedRecurrence, impactResult, exclusion,
                   bankInsights>>

NextCanonicalize == AddToken \/ CallCanonicalizeEntity

SpecCanonicalize == InitCanonicalize /\ [][NextCanonicalize]_vars

(***************************************************************************)
(* Properties                                                              *)
(***************************************************************************)

Done == pc = "done"

\* The options in effect inside the pruneIssues call that produced pruneResult.
Opts == MergeOptions(pruneOptions)

Final == pruneResult.issues

Indices(seq) == 1..Len(seq)

Range(seq) == { seq[i] : i \in Indices(seq) }

Max0(n) == IF n > 0 THEN n ELSE 0


\* The stages of the pipeline on the candidates of the state.
Stage1 == sortIssuesByScore(rawIssues)
Stage2 == filterLowEvidence(Stage1, Opts.minEvidenceByType)
Stage3 == deduplicateByEntityAndDetector(Stage2)
Stage4 == capPerEntity(Stage3, Opts.maxPerEntity)
Stage5 == filterLowSeverityIfNeeded(Stage4, Opts.allowLowSeverity, Opts.maxIssues)

\* The minimum evidence configured for a type: the entry of the table in
\* effect, 1 without an entry.
ConfiguredMinimum(type) ==
    IF type \in DOMAIN Opts.minEvidenceByType THEN Opts.minEvidenceByType[type] ELSE 1

\* The candidates (by position in the caller's list) that have the minimum.
GatePassing ==
    { i \in Indices(rawIssues) :
        Len(rawIssues[i].evidenceFactIds) >= ConfiguredMinimum(rawIssues[i].issueType) }

PairOf(issue) == <<issue.entityName, issue.issueType>>

GatePassingPairs == { PairOf(rawIssues[i]) : i \in GatePassing }

GatePassingEntities == { rawIssues[i].entityName : i \in GatePassing }

TypesOfEntity(e) == { rawIssues[i].issueType : i \in { j \in GatePassing : rawIssues[j].entityName = e } }

\* Over the entities of E, the number of gate-passing types beyond the cap.
RECURSIVE TypesBeyondCap(_)
TypesBeyondCap(E) ==
    IF E = {} THEN 0
    ELSE LET e == CHOOSE y \in E : TRUE
         IN  Max0(Cardinality(TypesOfEntity(e)) - Opts.maxPerEntity)
             + TypesBeyondCap(E \ {e})

CountIn(seq, x) == Cardinality({ i \in Indices(seq) : seq[i] = x })

LowIn(seq) == Cardinality({ i \in Indices(seq) : seq[i].severity = "low" })

NonLowIn(seq) == Cardinality({ i \in Indices(seq) : seq[i].severity # "low" })

\* C1: pruneIssues accounts for every candidate exactly once: the candidates
\* are the returned issues plus the five drop counters, the returned issues
\* are candidates, and each counter is the number of issues its own stage
\* removed.
C1_CountersAccountForAll ==
    Done =>
        /\ pruneResult.totalBeforePrune = Len(rawIssues)
        /\ pruneResult.totalBeforePrune =
               Len(Final) + pruneResult.droppedLowEvidence + pruneResult.droppedDuplicates
               + pruneResult.droppedPerEntityCap + pruneResult.droppedLowSeverity
               + pruneResult.droppedByCap
        /\ \A x \in Range(Final) : CountIn(Final, x) <= CountIn(rawIssues, x)
        /\ pruneResult.droppedLowEvidence = Len(rawIssues) - Cardinality(GatePassing)
        /\ pruneResult.droppedDuplicates =
               Cardinality(GatePassing) - Cardinality(GatePassingPairs)
        /\ pruneResult.droppedPerEntityCap =
               TypesBeyondCap(GatePassingEntities)
        /\ pruneResult.droppedLowSeverity \in {0, LowIn(Stage4)}
        /\ pruneResult.droppedLowSeverity = Len(Stage4) - Len(Stage5)
        /\ pruneResult.droppedByCap = Max0(Len(Stage5) - Opts.maxIssues)

\* Two stages have removed a candidate and a third candidate is returned.
C1_Witness ==
    /\ Done
    /\ pruneResult.droppedLowEvidence > 0
    /\ pruneResult.droppedDuplicates > 0
    /\ Final # <<>>

\* The default minimums as the specification lists them.
SpecifiedMinimums ==
    [ unpaid_invoice_aging  |-> 1,
      recurring_payment_gap |-> 3,
      amount_drift          |-> 4,
      duplicate_charge      |-> 2,
      new_recurring_charge  |-> 3,
      price_creep           |-> 4,
      unusual_spike         |-> 6 ]

SpecifiedMinimum(type) ==
    LET table == IF "minEvidenceByType" \in DOMAIN pruneOptions
                 THEN pruneOptions.minEvidenceByType
                 ELSE SpecifiedMinimums
    IN  IF type \in DOMAIN table THEN table[type] ELSE 1

BelowMinimum ==
    { i \in Indices(rawIssues) :
        Len(rawIssues[i].evidenceFactIds) < SpecifiedMinimum(rawIssues[i].issueType) }

NothingDroppedAfterGate ==
    /\ pruneResult.droppedDuplicates = 0
    /\ pruneResult.droppedPerEntityCap = 0
    /\ pruneResult.droppedLowSeverity = 0
    /\ pruneResult.droppedByCap = 0

\* C2: a candidate is removed at the evidence gate iff it has fewer evidence
\* facts than the minimum of its type (1 for a type without an entry, the
\* listed defaults without a table of the caller's), and droppedLowEvidence
\* counts the candidates removed this way.
C2_EvidenceGate ==
    Done =>
        /\ pruneResult.droppedLowEvidence = Cardinality(BelowMinimum)
        /\ \A i \in BelowMinimum : rawIssues[i] \notin Range(Final)
        /\ NothingDroppedAfterGate =>
               \A i \in Indices(rawIssues) \ BelowMinimum : rawIssues[i] \in Range(Final)

\* With the default options an amount_drift issue of three evidence facts is
\* dropped and one of four is returned.
C2_Witness ==
    /\ Done
    /\ pruneOptions = <<>>
    /\ pruneResult.droppedLowEvidence = 1
    /\ \E i \in Indices(rawIssues) :
           /\ rawIssues[i].issueType = "amount_drift"
           /\ Len(rawIssues[i].evidenceFactIds) = 3
           /\ rawIssues[i] \notin Range(Final)
    /\ \E i \in Indices(rawIssues) :
           /\ rawIssues[i].issueType = "amount_drift"
           /\ Len(rawIssues[i].evidenceFactIds) = 4
           /\ rawIssues[i] \in Range(Final)

\* The gate-passing candidate of pair p that is scored highest, the first of
\* them in the caller's list among equal scores (the sort is stable).
BestOfPair(p) ==
    CHOOSE i \in GatePassing :
        /\ PairOf(rawIssues[i]) = p
        /\ \A j \in GatePassing :
               PairOf(rawIssues[j]) = p =>
                   \/ calculateScore(rawIssues[i]) > calculateScore(rawIssues[j])
                   \/ /\ calculateScore(rawIssues[i]) = calculateScore(rawIssues[j])
                      /\ i <= j

\* C3: the returned list holds at most one issue per (entityName, issueType)
\* pair, which is the highest-scored gate-passing candidate of the pair (the
\* first in sort order among equal scores), and droppedDuplicates counts the
\* other gate-passing candidates of each pair.
C3_Deduplication ==
    Done =>
        /\ \A a, b \in Indices(Final) : a # b => PairOf(Final[a]) # PairOf(Final[b])
        /\ \A k \in Indices(Final) : Final[k] = rawIssues[BestOfPair(PairOf(Final[k]))]
        /\ pruneResult.droppedDuplicates =
               Cardinality(GatePassing) - Cardinality(GatePassingPairs)

\* Three candidates of one pair: the second, scored above the first and
\* equal to the third, is returned, the other two are counted as duplicates.
C3_Witness ==
    /\ Done
    /\ pruneResult.droppedDuplicates = 2
    /\ \E i, j, k \in GatePassing :
           /\ i < j /\ j < k
           /\ PairOf(rawIssues[i]) = PairOf(rawIssues[j])
           /\ PairOf(rawIssues[j]) = PairOf(rawIssues[k])
           /\ calculateScore(rawIssues[i]) < calculateScore(rawIssues[j])
           /\ calculateScore(rawIssues[j]) = calculateScore(rawIssues[k])
           /\ Final = <<rawIssues[j]>>

EntityCount(seq, e) == Cardinality({ i \in Indices(seq) : seq[i].entityName = e })

\* The position of a deduplicated issue in the list the per-entity cap reads.
PositionInStage3(x) == CHOOSE j \in Indices(Stage3) : Stage3[j] = x

\* The issues of the entity of Stage3[j] that precede it.
SameEntityBefore(j) ==
    Cardinality({ i \in 1..(j - 1) : Stage3[i].entityName = Stage3[j].entityName })

\* C4: the returned list holds at most maxPerEntity issues of any one entity
\* (default 2, 1 for runAnalysis in bank mode with default options), the
\* issues kept for an entity are its highest-scored ones after the dedup, and
\* droppedPerEntityCap counts the issues this cap removed.
C4_PerEntityCap ==
    Done =>
        /\ \A x \in Range(Final) : EntityCount(Final, x.entityName) <= Opts.maxPerEntity
        /\ \A x \in Range(Final) :
               /\ x \in Range(Stage3)
               /\ SameEntityBefore(PositionInStage3(x)) < Opts.maxPerEntity
        /\ pruneResult.droppedPerEntityCap = TypesBeyondCap(GatePassingEntities)
        /\ "maxPerEntity" \notin DOMAIN prune =>
               Opts.maxPerEntity = IF scanMode = "bank" THEN 1 ELSE 2

\* A bank-mode run with default options in which the cap of 1 removes the
\* lower-scored issue of an entity.
C4_Witness ==
    /\ Done
    /\ scanMode = "bank"
    /\ prune = <<>>
    /\ pruneResult.droppedPerEntityCap > 0
    /\ \E x \in Range(Final), y \in Range(Stage3) \ Range(Final) :
           /\ x.entityName = y.entityName
           /\ calculateScore(x) > calculateScore(y)

\* Stage 5 removes the low-severity issues.
Stage5Acts == ~Opts.allowLowSeverity /\ NonLowIn(Stage4) >= Opts.maxIssues

FirstOf(seq, n) == SubSeq(seq, 1, IF Len(seq) < n THEN Len(seq) ELSE n)

\* C5: stage 5 removes low-severity issues only when allowLowSeverity is
\* false and at least maxIssues issues of higher severity survived stage 4;
\* it then removes every low-severity issue, and otherwise removes nothing.
C5_LowSeverityFilter ==
    Done =>
        IF Stage5Acts
        THEN /\ pruneResult.droppedLowSeverity = LowIn(Stage4)
             /\ LowIn(Final) = 0
             /\ Final = FirstOf(SelectSeq(Stage4, LAMBDA i : i.severity # "low"),
                                Opts.maxIssues)
        ELSE /\ pruneResult.droppedLowSeverity = 0
             /\ Final = FirstOf(Stage4, Opts.maxIssues)

\* allowLowSeverity is false, enough issues of higher severity survived stage
\* 4 and a low-severity issue is removed.
C5_Witness ==
    /\ Done
    /\ Stage5Acts
    /\ LowIn(Stage4) > 0
    /\ pruneResult.droppedLowSeverity = LowIn(Stage4)

\* C6: pruneIssues returns at most maxIssues issues (default 8), the first
\* maxIssues survivors of stage 5; droppedByCap is the number cut off and
\* wasCapped holds exactly when droppedByCap > 0 or droppedPerEntityCap > 0.
\* Twelve candidates of twelve entities give 8 issues, droppedByCap = 4.
C6_TotalCap ==
    Done =>
        /\ Len(Final) <= Opts.maxIssues
        /\ Final = FirstOf(Stage5, Opts.maxIssues)
        /\ pruneResult.droppedByCap = Len(Stage5) - Len(Final)
        /\ pruneResult.wasCapped <=>
               (pruneResult.droppedByCap > 0 \/ pruneResult.droppedPerEntityCap > 0)
        /\ "maxIssues" \notin DOMAIN pruneOptions => Opts.maxIssues = 8
        /\ (pruneOptions = <<>> /\ rawIssues = DistinctEntityIssues(12)) =>
               /\ Len(Final) = 8
               /\ pruneResult.droppedByCap = 4
               /\ pruneResult.wasCapped

\* The twelve candidates of twelve entities, pruned with the default options.
C6_Witness ==
    /\ Done
    /\ pruneOptions = <<>>
    /\ Len(rawIssues) = 12
    /\ \A i, j \in Indices(rawIssues) :
           i # j => rawIssues[i].entityName # rawIssues[j].entityName
    /\ Len(Final) = 8
    /\ pruneResult.droppedByCap = 4

BankModeDefaults == scanMode = "bank" /\ prune = <<>>

\* C7 as stated: in bank mode with default prune options allowLowSeverity is
\* forced to false iff at least 3 issues that are not of low severity
\* survived stages 1-4.
C7_TighteningCountsStage4 ==
    (Done /\ BankModeDefaults) =>
        (pruneOptions.allowLowSeverity = FALSE <=> NonLowIn(Stage4) >= 3)

\* C7 amended: in bank mode with default prune options allowLowSeverity is
\* forced to false iff at least 3 of the issues the detectors pushed are not
\* of low severity; the count is taken before any pruning stage runs.
C7_TighteningCountsRawIssues ==
    (Done /\ BankModeDefaults) =>
        (pruneOptions.allowLowSeverity = FALSE <=> NonLowIn(rawIssues) >= 3)

\* Three pushed issues are not of low severity, fewer than three of them
\* survive stage 4, and allowLowSeverity is false.
C7_Witness ==
    /\ Done
    /\ BankModeDefaults
    /\ NonLowIn(rawIssues) >= 3
    /\ NonLowIn(Stage4) < 3
    /\ pruneOptions.allowLowSeverity = FALSE

SpecifiedWeight(severity) ==
    CASE severity = "high" -> 3 [] severity = "medium" -> 2 [] severity = "low" -> 1

Largest(a, b) == IF a > b THEN a ELSE b

\* The score with a given impact, in thousandths:
\* weight*10 + confidence*5 + log10(impact + 1) + evidenceFactCount*0.2.
ScoreWithImpact(issue, impact) ==
    SpecifiedWeight(issue.severity) * 10000 + issue.confidence * 5
    + Log10(impact + 1) * 1000 + Len(issue.evidenceFactIds) * 200

\* max(impactMin, impactMax, 0), a null bound counting for nothing.
LargestImpact(issue) ==
    Largest(Largest(IF issue.impactMin = NullNum THEN 0 ELSE issue.impactMin,
                    IF issue.impactMax = NullNum THEN 0 ELSE issue.impactMax), 0)

\* impactMin when it is not null, else impactMax when it is not null, else 0;
\* an impact that is not positive counts as 0.
PreferredImpact(issue) ==
    Largest(IF issue.impactMin # NullNum THEN issue.impactMin
            ELSE IF issue.impactMax # NullNum THEN issue.impactMax ELSE 0, 0)

NonIncreasing(seq, score(_)) ==
    \A a, b \in Indices(seq) : a < b => score(seq[a]) >= score(seq[b])

\* C8 as stated: the returned list is in non-increasing order of the score
\* taken with the impact max(impactMin, impactMax, 0).
C8_SortedByLargestImpactScore ==
    Done => NonIncreasing(Final, LAMBDA i : ScoreWithImpact(i, LargestImpact(i)))

\* C8 amended: the returned list is in non-increasing order of the score
\* taken with the impact impactMin, or impactMax when impactMin is null, or 0
\* when both are null; among issues equal in the other terms the higher
\* severity, the higher confidence and the higher such impact come first.
C8_SortedByPreferredImpactScore ==
    Done =>
        /\ NonIncreasing(Final, LAMBDA i : ScoreWithImpact(i, PreferredImpact(i)))
        /\ \A a, b \in Indices(Final) :
               a < b =>
                   /\ (/\ Final[a].confidence = Final[b].confidence
                       /\ PreferredImpact(Final[a]) = PreferredImpact(Final[b]))
                      => SpecifiedWeight(Final[a].severity) >= SpecifiedWeight(Final[b].severity)
                   /\ (/\ Final[a].severity = Final[b].severity
                       /\ PreferredImpact(Final[a]) = PreferredImpact(Final[b]))
                      => Final[a].confidence >= Final[b].confidence
                   /\ (/\ Final[a].severity = Final[b].severity
                       /\ Final[a].confidence = Final[b].confidence)
                      => PreferredImpact(Final[a]) >= PreferredImpact(Final[b])

\* An issue whose impactMin is below its impactMax is returned behind an
\* issue of a larger impactMin although its impactMax is the largest impact
\* of the two.
C8_Witness ==
    /\ Done
    /\ \E a, b \in Indices(Final) :
           /\ a < b
           /\ Final[b].impactMin # NullNum
           /\ Final[b].impactMin < Final[b].impactMax
           /\ Final[a].severity = Final[b].severity
           /\ Final[a].confidence = Final[b].confidence
           /\ PreferredImpact(Final[a]) > PreferredImpact(Final[b])
           /\ LargestImpact(Final[a]) < LargestImpact(Final[b])

\* The lists that hold the candidates of the state in another order.
Reorderings(seq) ==
    { [i \in Indices(seq) |-> seq[f[i]]] : f \in Permutations(Indices(seq)) }

DistinctScores ==
    \A i, j \in Indices(rawIssues) :
        i # j => calculateScore(rawIssues[i]) # calculateScore(rawIssues[j])

\* C9 as stated: for every order of the same candidates pruneIssues returns
\* the same list and the same counters, also when candidates have equal
\* scores.
C9_OrderIndependent ==
    Done => \A other \in Reorderings(rawIssues) :
                pruneIssues(other, pruneOptions) = pruneResult

\* C9 amended: for every order of the same candidates pruneIssues returns the
\* same list and the same counters provided no two candidates have equal
\* scores; candidates of equal score stay in the order of arrival.
C9_OrderIndependentForDistinctScores ==
    (Done /\ DistinctScores) =>
        \A other \in Reorderings(rawIssues) :
            pruneIssues(other, pruneOptions) = pruneResult

\* Three candidates of distinct scores that arrive out of score order, one
\* of which is removed.
C9_Witness ==
    /\ Done
    /\ DistinctScores
    /\ Len(rawIssues) = 3
    /\ Stage1 # rawIssues
    /\ Len(Final) = 2

KnownDirection == SelectSeq(facts, LAMBDA f : f.direction \in {"inflow", "outflow"})

Classified == pc = "classified"

\* The positions of the facts of an entity that qualify: direction outflow,
\* clearingStatus cleared, an amount and a date.
QualifyingOf(key) ==
    { i \in 1..Len(facts) :
          /\ getEntityKey(facts[i]) = key
          /\ facts[i].direction = "outflow"
          /\ facts[i].clearingStatus = "cleared"
          /\ facts[i].amountValue # NullNum
          /\ facts[i].dateValue # NullNum }

\* i comes before j in the order of dates (of positions for equal dates).
DateBefore(i, j) ==
    \/ facts[i].dateValue < facts[j].dateValue
    \/ facts[i].dateValue = facts[j].dateValue /\ i < j

\* The pairs of date-consecutive facts of Q whose gap is inside [lo, hi].
GapsInside(Q, lo, hi) ==
    { <<i, j>> \in Q \X Q :
          /\ DateBefore(i, j)
          /\ ~ \E k \in Q : DateBefore(i, k) /\ DateBefore(k, j)
          /\ facts[j].dateValue - facts[i].dateValue >= lo
          /\ facts[j].dateValue - facts[i].dateValue <= hi }

AbsAmount(i) == IF facts[i].amountValue < 0 THEN -facts[i].amountValue ELSE facts[i].amountValue

\* The k-th smallest amount of the facts of Q.
KthAmount(Q, k) ==
    CHOOSE v \in { AbsAmount(i) : i \in Q } :
        /\ Cardinality({ i \in Q : AbsAmount(i) < v }) < k
        /\ Cardinality({ i \in Q : AbsAmount(i) <= v }) >= k

\* Twice the median amount of the facts of Q.
TwiceMedianOf(Q) ==
    KthAmount(Q, (Cardinality(Q) + 1) \div 2) + KthAmount(Q, Cardinality(Q) \div 2 + 1)

\* Every amount of Q is within +-percent% of the median.
WithinOfMedian(Q, percent) ==
    \A i \in Q : 100 * Abs(2 * AbsAmount(i) - TwiceMedianOf(Q)) <= percent * TwiceMedianOf(Q)

StrictRule(Q) ==
    /\ Cardinality(Q) >= 3
    /\ Cardinality(GapsInside(Q, 28, 33)) >= 2
    /\ WithinOfMedian(Q, 10)

LikelyRule(Q) ==
    /\ Cardinality(Q) >= 4
    /\ Cardinality(GapsInside(Q, 28, 35)) >= 2
    /\ WithinOfMedian(Q, 20)

TierRule(Q) ==
    IF StrictRule(Q) THEN "strict" ELSE IF LikelyRule(Q) THEN "likely" ELSE "none"

\* C11: classifyMonthlyByEntity gives each entity tier strict iff it has at
\* least 3 qualifying facts, at least 2 gaps between date-consecutive
\* qualifying facts inside [28,33] and every amount within 10% of the median
\* amount; otherwise likely iff it has at least 4 qualifying facts, at least
\* 2 gaps inside [28,35] and every amount within 20% of the median;
\* otherwise none; isMonthly is true exactly for the tiers strict and likely.
C11_TierRules ==
    Classified =>
        \A key \in DOMAIN derivedRecurrence :
            /\ derivedRecurrence[key].tier = TierRule(QualifyingOf(key))
            /\ derivedRecurrence[key].isMonthly <=>
                   derivedRecurrence[key].tier \in {"strict", "likely"}

\* The facts of an entity that qualify, in the order of the statement.
QualifyingFactsOf(key) ==
    SelectSeq(facts, LAMBDA f :
        /\ getEntityKey(f) = key
        /\ f.direction = "outflow"
        /\ f.clearingStatus = "cleared"
        /\ f.amountValue # NullNum
        /\ f.dateValue # NullNum)

\* C12: the classification of an entity depends only on its qualifying
\* facts: its tier, isMonthly, evidenceCount and medianAmount are those of
\* the statement with every pending, reversed, inflow, amount-less and
\* date-less fact of the entity removed, and evidenceCount is the number of
\* qualifying facts.
C12_OnlyQualifyingFactsCount ==
    Classified =>
        \A key \in DOMAIN derivedRecurrence :
            LET all  == derivedRecurrence[key]
                only == classifyEntity(QualifyingFactsOf(key))
            IN  /\ all.tier = only.tier
                /\ all.isMonthly = only.isMonthly
                /\ all.evidenceCount = only.evidenceCount
                /\ all.medianAmount = only.medianAmount
                /\ all.evidenceCount = Cardinality(QualifyingOf(key))

\* An entity is monthly on three qualifying charges although the statement
\* holds a fourth entry of it that does not qualify.
C12_Witness ==
    /\ Classified
    /\ \E key \in DOMAIN derivedRecurrence :
           /\ derivedRecurrence[key].isMonthly
           /\ derivedRecurrence[key].evidenceCount = 3
           /\ Len(FactsOfEntity(facts, key)) = 4

Calculated == pc = "calculated"

\* Every fact passed has an amount and a currency and all currencies are
\* the same.
AmountsAndOneCurrency ==
    /\ \A i \in 1..Len(facts) :
           facts[i].amountValue # NullNum /\ facts[i].amountCurrency # Null
    /\ \A i, j \in 1..Len(facts) : facts[i].amountCurrency = facts[j].amountCurrency

\* C13: each of the four impact calculators returns a non-null impactMin or
\* impactMax only if every fact passed to it has a non-null amount and a
\* non-null currency and all currencies are the same; in every other case it
\* returns impactMin = impactMax = null with a non-null reason.
C13_ImpactOnlyWithAmountsAndOneCurrency ==
    Calculated =>
        /\ (impactResult.impactMin # NullNum \/ impactResult.impactMax # NullNum)
               => AmountsAndOneCurrency
        /\ ~AmountsAndOneCurrency =>
               /\ impactResult.impactMin = NullNum
               /\ impactResult.impactMax = NullNum
               /\ impactResult.reason # Null

Checked == pc = "checked"

InList(patterns, text) == \E i \in 1..Len(patterns) : includes(text, patterns[i])

CanonicalText == IF args.entityCanonical = Null THEN "" ELSE toUpperCase(args.entityCanonical)

RawText == IF args.entityRaw = Null THEN "" ELSE toUpperCase(args.entityRaw)

HasMerchantIndicator == InList(MERCHANT_INDICATORS, CanonicalText)

P2PRule == InList(STRONG_TRANSFER_KEYWORDS, CanonicalText)

CardPaymentRule ==
    InList(CARD_PAYMENT_PATTERNS, CanonicalText) \/ InList(CARD_PAYMENT_PATTERNS, RawText)

BankServiceRule == InList(BANK_SERVICE_PATTERNS, CanonicalText)

\* C18: checkExclusion returns isExcluded = false for every canonical text
\* that contains a real-merchant indicator, whatever P2P keyword, card
\* payment pattern, bank service pattern or weak transfer word the canonical
\* or raw text also contains; among the remaining rules the first match in
\* the order P2P, card payment, bank service, weak transfer decides the
\* reported reason.
C18_MerchantIndicatorOverrides ==
    Checked =>
        /\ HasMerchantIndicator => exclusion = NotExcluded
        /\ (~HasMerchantIndicator /\ CanonicalText # "") =>
               /\ P2PRule => exclusion.reason = "P2P transfer service"
               /\ (~P2PRule /\ CardPaymentRule) => exclusion.reason = "Credit card payment"
               /\ (~P2PRule /\ ~CardPaymentRule /\ BankServiceRule) =>
                      exclusion.reason = "Bank fee/service"
               /\ (~P2PRule /\ ~CardPaymentRule /\ ~BankServiceRule /\ exclusion.isExcluded) =>
                      exclusion.reason = "Transfer/payment"
               /\ exclusion.isExcluded <=> exclusion.reason # Null

\* A text with a merchant indicator in lower case, a P2P keyword and a card
\* payment in the raw description is not excluded.
C18_Witness ==
    /\ Checked
    /\ includes(args.entityCanonical, "netflix")
    /\ includes(args.entityCanonical, "ZELLE")
    /\ args.entityRaw = "Card Payment"
    /\ ~exclusion.isExcluded

(***************************************************************************)
(* Impacts of the bank detectors                                           *)
(***************************************************************************)

\* The bank detectors have run.
Detected == pc = "detected"

\* The facts an issue lists as its evidence.
EvidenceFacts(issue) ==
    { k \in 1..Len(facts) :
          \E e \in 1..Len(issue.evidenceFactIds) : issue.evidenceFactIds[e] = facts[k].id }

\* The facts an issue is computed from: the group of identical charges for
\* a duplicate_charge, the cleared outflows of the entity for the others.
ContributingFacts(issue) ==
    IF issue.issueType = "duplicate_charge" THEN EvidenceFacts(issue)
    ELSE { k \in 1..Len(facts) :
               /\ IsClearedOutflow(facts[k])
               /\ \E e \in EvidenceFacts(issue) : getEntityKey(facts[e]) = getEntityKey(facts[k]) }

HasImpact(issue) == issue.impactMin # NullNum \/ issue.impactMax # NullNum

OneSharedCurrency(F) ==
    /\ \A k \in F : facts[k].amountValue # NullNum /\ facts[k].amountCurrency # Null
    /\ \A k, l \in F : facts[k].amountCurrency = facts[l].amountCurrency

\* C14: every issue a detector emits has an impactMin or impactMax only if
\* all the facts it is computed from have an amount and one shared
\* currency; with a missing or a differing currency both are null.
C14_ImpactOnlyWithOneSharedCurrency ==
    Detected =>
        \A i \in 1..Len(rawIssues) :
            HasImpact(rawIssues[i]) => OneSharedCurrency(ContributingFacts(rawIssues[i]))

(***************************************************************************)
(* Non-merchant entities in the bank detectors                             *)
(***************************************************************************)

PatternDetectorTypes == {"new_recurring_charge", "price_creep", "unusual_spike"}

\* The entity keys of the statement that are non-merchant transactions.
NonMerchantKeys ==
    { key \in { getEntityKey(facts[k]) : k \in 1..Len(facts) } :
          isNonMerchantTransaction(key, Null) }

\* The issue is about the entity of this key.
IssueAbout(issue, key) ==
    \E k \in EvidenceFacts(issue) : getEntityKey(facts[k]) = key

\* The cleared outflows of the key that share this one's date and amount.
SameCharge(k) ==
    { l \in 1..Len(facts) :
          /\ IsClearedOutflow(facts[l])
          /\ getEntityKey(facts[l]) = getEntityKey(facts[k])
          /\ facts[l].dateValue = facts[k].dateValue
          /\ facts[l].amountValue = facts[k].amountValue }

\* C19: for an entity whose key is a non-merchant transaction no
\* new_recurring_charge, price_creep or unusual_spike issue is emitted,
\* while two or more of its cleared outflows of one date and amount still
\* give a duplicate_charge issue.
C19_NonMerchantOnlyDuplicates ==
    Detected =>
        \A key \in NonMerchantKeys :
            /\ \A i \in 1..Len(rawIssues) :
                   rawIssues[i].issueType \in PatternDetectorTypes
                       => ~IssueAbout(rawIssues[i], key)
            /\ \A k \in 1..Len(facts) :
                   /\ getEntityKey(facts[k]) = key
                   /\ IsClearedOutflow(facts[k])
                   /\ Cardinality(SameCharge(k)) >= 2
                   => \E i \in 1..Len(rawIssues) :
                          /\ rawIssues[i].issueType = "duplicate_charge"
                          /\ EvidenceFacts(rawIssues[i]) = SameCharge(k)

\* A transfer entity with six weekly charges of 40 and then two charges of
\* 100 on one day: a duplicate is reported and nothing else, although the
\* last charge is 2.5 times the median.
C19_Witness ==
    /\ Detected
    /\ Len(facts) = HistoryLength + 2
    /\ \A k \in 1..Len(facts) : getEntityKey(facts[k]) \in NonMerchantKeys
    /\ facts[7].amountValue = 100 /\ facts[8].amountValue = 100
    /\ facts[7].dateValue = facts[8].dateValue
    /\ Len(rawIssues) = 1
    /\ rawIssues[1].issueType = "duplicate_charge"
    /\ rawIssues[1].evidenceFactIds = <<"7", "8">>

(***************************************************************************)
(* The recurring payment gap detector                                      *)
(***************************************************************************)

\* The fact counts as a monthly payment: its stored recurrence is monthly,
\* or it is one_time and the derived classification of its entity is
\* monthly.
CountsAsMonthly(k) ==
    \/ facts[k].recurrence = "monthly"
    \/ /\ facts[k].recurrence = "one_time"
       /\ getPaymentEntityKey(facts[k]) \in DOMAIN derivedRecurrence
       /\ derivedRecurrence[getPaymentEntityKey(facts[k])].isMonthly

\* The paid monthly payments of an entity that have a date.
PaidMonthlyOf(key) ==
    { k \in 1..Len(facts) :
          /\ getPaymentEntityKey(facts[k]) = key
          /\ facts[k].factType = "payment"
          /\ facts[k].status = "paid"
          /\ facts[k].dateValue # NullNum
          /\ CountsAsMonthly(k) }

\* The pairs of date-consecutive payments of Q more than 45 days apart.
LongGaps(Q) ==
    { <<i, j>> \in Q \X Q :
          /\ DateBefore(i, j)
          /\ ~ \E k \in Q : DateBefore(i, k) /\ DateBefore(k, j)
          /\ facts[j].dateValue - facts[i].dateValue > 45 }

GapDaysOf(g) == facts[g[2]].dateValue - facts[g[1]].dateValue

MonthsMissedOf(g) == (GapDaysOf(g) \div 30) - 1

\* The payments of Q up to the gap.
BeforeGap(Q, g) == { k \in Q : k = g[1] \/ DateBefore(k, g[1]) }

GapSeverity(monthsMissed) ==
    IF monthsMissed >= 3 THEN "high" ELSE IF monthsMissed = 2 THEN "medium" ELSE "low"

\* The pre-gap payments are explicit-monthly, single-currency and within
\* +-10% of their median.
StablePreGap(B) ==
    /\ \A k \in B : facts[k].recurrence = "monthly" /\ facts[k].amountValue # NullNum
    /\ OneSharedCurrency(B)
    /\ WithinOfMedian(B, 10)

GapIssuesOf(key) ==
    { i \in 1..Len(rawIssues) :
          /\ rawIssues[i].issueType = "recurring_payment_gap"
          /\ \E k \in EvidenceFacts(rawIssues[i]) : getPaymentEntityKey(facts[k]) = key }

PaymentKeysOfLedger == { getPaymentEntityKey(facts[k]) : k \in 1..Len(facts) }

DatedPayments ==
    { k \in 1..Len(facts) :
          /\ facts[k].factType = "payment"
          /\ facts[k].dateValue # NullNum
          /\ facts[k].amountValue # NullNum }

\* The payments that share entity, date and amount with this one.
GroupOf(k) ==
    { l \in DatedPayments :
          /\ facts[l].entityName = facts[k].entityName
          /\ facts[l].dateValue = facts[k].dateValue
          /\ facts[l].amountValue = facts[k].amountValue }

DuplicateGroups == { GroupOf(k) : k \in DatedPayments } \ { G \in SUBSET DatedPayments : Cardinality(G) < 2 }

DuplicateIssues == { i \in 1..Len(rawIssues) : rawIssues[i].issueType = "duplicate_charge" }

AmountOfGroup(G) == facts[CHOOSE k \in G : TRUE].amountValue

MonthlyByRule(k) ==
    \/ facts[k].recurrence = "monthly"
    \/ /\ facts[k].recurrence \in {"one_time", "unknown"}
       /\ getPaymentEntityKey(facts[k]) \in DOMAIN derivedRecurrence
       /\ derivedRecurrence[getPaymentEntityKey(facts[k])].isMonthly

\* The payments of an entity the gap detector works on.
GapPaymentsOf(key) ==
    { k \in 1..Len(facts) :
          /\ getPaymentEntityKey(facts[k]) = key
          /\ facts[k].factType = "payment"
          /\ facts[k].status = "paid"
          /\ facts[k].dateValue # NullNum
          /\ MonthlyByRule(k) }

\* The payments of an entity the drift detector works on.
DriftPaymentsOf(key) ==
    { k \in 1..Len(facts) :
          /\ getPaymentEntityKey(facts[k]) = key
          /\ facts[k].factType = "payment"
          /\ facts[k].dateValue # NullNum
          /\ facts[k].amountValue # NullNum
          /\ MonthlyByRule(k) }

\* The last two payments of D in the order of dates, and the ones before.
RecentOf(D) == { k \in D : Cardinality({ l \in D : DateBefore(k, l) }) < 2 }

PriorOf(D) == D \ RecentOf(D)

\* Twice the average of the two recent amounts.
RecentSum(D) ==
    LET a == CHOOSE k \in RecentOf(D) : TRUE
        b == CHOOSE k \in RecentOf(D) : k # a
    IN  facts[a].amountValue + facts[b].amountValue

\* At least 4 payments, the prior ones within 10% of their median and the
\* recent average at least 20% below it.
DriftsByRule(D) ==
    /\ Cardinality(D) >= 4
    /\ WithinOfMedian(PriorOf(D), 10)
    /\ 100 * (TwiceMedianOf(PriorOf(D)) - RecentSum(D)) >= 20 * TwiceMedianOf(PriorOf(D))

IssuesOfTypeAbout(type, key) ==
    { i \in 1..Len(rawIssues) :
          /\ rawIssues[i].issueType = type
          /\ \E k \in EvidenceFacts(rawIssues[i]) : getPaymentEntityKey(facts[k]) = key }

\* C20: with a derivedRecurrence map the gap and the drift detector count a
\* payment as monthly if and only if its explicit recurrence is monthly, or
\* it is one_time or unknown and the derived classification of its entity
\* is monthly; quarterly and annual payments never count.  An issue of
\* either detector is built on exactly these payments, and they suffice
\* for one.
C20_MonthlyIffExplicitOrDerived ==
    Detected =>
        \A key \in PaymentKeysOfLedger :
            /\ \A i \in IssuesOfTypeAbout("recurring_payment_gap", key) :
                   EvidenceFacts(rawIssues[i]) = GapPaymentsOf(key)
            /\ \A i \in IssuesOfTypeAbout("amount_drift", key) :
                   EvidenceFacts(rawIssues[i]) = DriftPaymentsOf(key)
            /\ Cardinality(GapPaymentsOf(key)) >= 3 /\ LongGaps(GapPaymentsOf(key)) # {}
                   => IssuesOfTypeAbout("recurring_payment_gap", key) # {}
            /\ DriftsByRule(DriftPaymentsOf(key))
                   => IssuesOfTypeAbout("amount_drift", key) # {}

(***************************************************************************)
(* Evidence of the issues                                                  *)
(***************************************************************************)

BankIssueTypes == {"new_recurring_charge", "price_creep", "unusual_spike"}

\* The run was one of the bank detectors.
BankRun == scanMode = "bank"

\* A cleared outflow with a date and an amount.
ClearedOutflow(k) ==
    /\ facts[k].direction = "outflow"
    /\ facts[k].clearingStatus = "cleared"
    /\ facts[k].dateValue # NullNum
    /\ facts[k].amountValue # NullNum

\* The fact satisfies the qualifying predicate of the detector of the
\* issue type.
QualifiesFor(type, k) ==
    CASE type = "unpaid_invoice_aging" ->
             /\ facts[k].factType = "invoice"
             /\ facts[k].status = "unpaid"
             /\ facts[k].dateValue # NullNum
             /\ facts[k].dateType \in {"due", "issued"}
             /\ args.today - facts[k].dateValue >= 45
      [] type = "recurring_payment_gap" ->
             /\ facts[k].factType = "payment"
             /\ facts[k].status = "paid"
             /\ facts[k].dateValue # NullNum
             /\ MonthlyByRule(k)
      [] type = "amount_drift" ->
             /\ facts[k].factType = "payment"
             /\ facts[k].dateValue # NullNum
             /\ facts[k].amountValue # NullNum
             /\ MonthlyByRule(k)
      [] type = "duplicate_charge" ->
             IF BankRun THEN ClearedOutflow(k) ELSE k \in DatedPayments
      [] type \in BankIssueTypes ->
             ClearedOutflow(k) /\ getEntityKey(facts[k]) \notin NonMerchantKeys

\* The entity key the detectors of the run group by.
KeyOfRun(k) == IF BankRun THEN getEntityKey(facts[k]) ELSE getPaymentEntityKey(facts[k])

\* The facts are one group of the detector: one entity and, for a
\* duplicate_charge, one date and amount.
OneGroup(type, E) ==
    \A k, l \in E :
        /\ KeyOfRun(k) = KeyOfRun(l)
        /\ type = "duplicate_charge"
               => /\ facts[k].dateValue = facts[l].dateValue
                  /\ facts[k].amountValue = facts[l].amountValue

\* The issue names the entity of the group.
NamesEntityOf(issue, E) ==
    \E k \in E : issue.entityName \in {facts[k].entityName, KeyOfRun(k)}

\* C17: each id in the evidenceFactIds of an emitted issue is the id of a
\* fact of the input that satisfies the qualifying predicate of the
\* detector and belongs to the entity group the issue is about; no id is
\* absent from the input.
C17_EvidenceFromInput ==
    Detected =>
        \A i \in 1..Len(rawIssues) :
            LET issue == rawIssues[i]
                E     == EvidenceFacts(issue)
            IN  /\ Len(issue.evidenceFactIds) > 0
                /\ \A e \in 1..Len(issue.evidenceFactIds) :
                       \E k \in 1..Len(facts) : facts[k].id = issue.evidenceFactIds[e]
                /\ \A k \in E : QualifiesFor(issue.issueType, k)
                /\ OneGroup(issue.issueType, E)
                /\ NamesEntityOf(issue, E)

\* A spike after six weekly charges: the issue lists the last four charges
\* of the merchant.
C17_Witness ==
    /\ Detected
    /\ BankRun
    /\ Len(facts) = HistoryLength + 1
    /\ \E i \in 1..Len(rawIssues) :
           /\ rawIssues[i].issueType = "unusual_spike"
           /\ rawIssues[i].evidenceFactIds = <<"4", "5", "6", "7">>

(***************************************************************************)
(* C21                                                                     *)
(***************************************************************************)

\* The facts classifyMonthlyByEntity stores under a key.
ClassifierGroup(key) == { k \in 1..Len(facts) : getEntityKey(facts[k]) = key }

\* C21: every detector groups facts by the entity key of the classifier,
\* entityCanonical || entityRaw || entityName || "_unknown_": the facts an
\* issue lists as the group of one entity are in one group of the
\* classifier, and the gap detector finds the derived classification of a
\* payment under the key the classifier stored it, so that paid payments of
\* a group the classifier calls monthly, with a gap of more than 45 days,
\* get a recurring_payment_gap issue, also with a null entityCanonical and a
\* non-null entityRaw, and two payments of one group of the classifier with
\* the same date and amount are one group of the duplicate detector.
C21_OneEntityKey ==
    Detected =>
        /\ \A i \in 1..Len(rawIssues) :
               \A k, l \in EvidenceFacts(rawIssues[i]) :
                   getEntityKey(facts[k]) = getEntityKey(facts[l])
        /\ \A key \in DOMAIN derivedRecurrence :
               LET Q == ClassifierGroup(key)
               IN  /\ derivedRecurrence[key].isMonthly
                   /\ \A k \in Q : /\ facts[k].factType = "payment"
                                   /\ facts[k].status = "paid"
                                   /\ facts[k].recurrence \in {"monthly", "one_time"}
                   /\ LongGaps(Q) # {}
                   => \E i \in 1..Len(rawIssues) :
                          /\ rawIssues[i].issueType = "recurring_payment_gap"
                          /\ EvidenceFacts(rawIssues[i]) = Q
        /\ \A k, l \in 1..Len(facts) :
               /\ k # l
               /\ getEntityKey(facts[k]) = getEntityKey(facts[l])
               /\ facts[k].dateValue = facts[l].dateValue
               /\ facts[k].amountValue = facts[l].amountValue
               => \E i \in 1..Len(rawIssues) :
                      /\ rawIssues[i].issueType = "duplicate_charge"
                      /\ {k, l} \subseteq EvidenceFacts(rawIssues[i])

(***************************************************************************)
(* C22                                                                     *)
(***************************************************************************)

\* The age of an invoice: today minus its date.
AgeOf(k) == args.today - facts[k].dateValue

\* The aged invoices of an entity: unpaid, with a due or an issue date at
\* least 45 days before today.
AgedInvoicesOf(key) ==
    { k \in 1..Len(facts) :
          /\ getPaymentEntityKey(facts[k]) = key
          /\ facts[k].factType = "invoice"
          /\ facts[k].status = "unpaid"
          /\ facts[k].dateValue # NullNum
          /\ facts[k].dateType \in {"due", "issued"}
          /\ AgeOf(k) >= DEFAULT_AGING_DAYS }

AgingSeverity(A) ==
    IF \E k \in A : AgeOf(k) > 90 THEN "high"
    ELSE IF \E k \in A : AgeOf(k) > 60 THEN "medium" ELSE "low"

RECURSIVE SumOver(_)
SumOver(A) ==
    IF A = {} THEN 0
    ELSE LET k == CHOOSE k \in A : TRUE
         IN  facts[k].amountValue + SumOver(A \ {k})

AgingIssuesOf(key) ==
    { i \in 1..Len(rawIssues) :
          /\ rawIssues[i].issueType = "unpaid_invoice_aging"
          /\ \E k \in EvidenceFacts(rawIssues[i]) : getPaymentEntityKey(facts[k]) = key }

\* C22: an invoice counts as aged iff it is unpaid, has a due or an issue
\* date and today minus its date is at least 45 days; each entity with an
\* aged invoice gets exactly one unpaid_invoice_aging issue, whose evidence
\* is its aged invoices, whose severity is high when the oldest is more
\* than 90 days old, medium when more than 60 and low otherwise, and whose
\* impact is the sum of their amounts when all have an amount and one
\* shared currency; an entity without an aged invoice gets none.
C22_AgedInvoices ==
    Detected =>
        \A key \in PaymentKeysOfLedger :
            LET A == AgedInvoicesOf(key)
            IN  /\ Cardinality(AgingIssuesOf(key)) = IF A # {} THEN 1 ELSE 0
                /\ \A i \in AgingIssuesOf(key) :
                       /\ EvidenceFacts(rawIssues[i]) = A
                       /\ rawIssues[i].severity = AgingSeverity(A)
                       /\ OneSharedCurrency(A) =>
                              /\ rawIssues[i].impactMin = SumOver(A)
                              /\ rawIssues[i].impactMax = SumOver(A)

(***************************************************************************)
(* C23                                                                     *)
(***************************************************************************)

\* The facts of F but the latest one.
AllButLatest(F) == { k \in F : \E l \in F : DateBefore(k, l) }

\* The amounts whose median a detector divides by: the prior payments of an
\* amount_drift, the baseline of a price_creep, the history of an
\* unusual_spike.
MedianBasisOf(issue) ==
    CASE issue.issueType = "amount_drift"  -> PriorOf(EvidenceFacts(issue))
      [] issue.issueType = "price_creep"   -> AllButLatest(EvidenceFacts(issue))
      [] issue.issueType = "unusual_spike" -> AllButLatest(ContributingFacts(issue))

\* C23: no amount_drift, price_creep or unusual_spike issue is computed
\* from a division by a zero median: an entity whose prior, baseline or
\* historical median amount is 0 gets no such issue.
C23_NoIssueFromZeroMedian ==
    Detected =>
        \A i \in 1..Len(rawIssues) :
            rawIssues[i].issueType \in {"amount_drift", "price_creep", "unusual_spike"}
                => TwiceMedianOf(MedianBasisOf(rawIssues[i])) # 0

(***************************************************************************)
(* C24                                                                     *)
(***************************************************************************)

\* C24: canonicalizeEntity is idempotent: the canonical form of a
\* description, when there is one, is its own canonical form.
C24_Idempotent ==
    pc = "canonical" /\ args.entityCanonical # Null
        => canonicalizeEntity(args.entityCanonical) = args.entityCanonical

(***************************************************************************)
(* C25                                                                     *)
(***************************************************************************)

\* The sum of the monthly amounts of the first n recurring merchants.
RECURSIVE MonthlySum(_)
MonthlySum(n) ==
    IF n = 0 THEN 0
    ELSE MonthlySum(n - 1) + bankInsights.recurringMerchants[n].monthlyAmount

\* C25: the insights of a bank run sum the monthly amounts of the recurring
\* merchants exactly when there is a recurring merchant, every recurring
\* merchant has a monthly amount and all of them carry one and the same
\* currency that is not null; otherwise canSumRecurring is false and
\* totalMonthlyRecurring is null.
C25_CanSumRecurring ==
    Detected /\ BankRun =>
        LET merchants == bankInsights.recurringMerchants
            M         == 1..Len(merchants)
            summable  == /\ M # {}
                         /\ \A k \in M : merchants[k].monthlyAmount # NullNum
                         /\ \A k \in M : merchants[k].currency # Null
                         /\ \A k, l \in M : merchants[k].currency = merchants[l].currency
        IN  /\ bankInsights.canSumRecurring = summable
            /\ bankInsights.totalMonthlyRecurring =
                   IF summable
                   THEN MonthlySum(Len(merchants))
                   ELSE NullNum

(***************************************************************************)
(* C26                                                                     *)
(***************************************************************************)

\* The issues of higher than low severity that stage 4 leaves.
NonLowSurvivors == { x \in Range(Stage4) : x.severity # "low" }

\* C26: when low severity is not allowed and fewer than maxIssues issues of
\* higher severity survive stage 4, the low-severity issues take only the
\* places the others leave free: every surviving issue of higher severity
\* is returned, and a low-severity issue is returned only if all of those
\* are.
C26_LowFillsFreeSlots ==
    Done /\ ~Opts.allowLowSeverity /\ NonLowIn(Stage4) < Opts.maxIssues =>
        /\ NonLowSurvivors \subseteq Range(Final)
        /\ (\E x \in Range(Final) : x.severity = "low")
               => NonLowSurvivors \subseteq Range(Final)

\* C27: a recurring_payment_gap or amount_drift issue with a payment that
\* counts as monthly through the derived classification only (its stored
\* recurrence is not monthly) has neither an impactMin nor an impactMax.
C27_DerivedOnlyHasNoImpact ==
    Detected =>
        \A i \in 1..Len(rawIssues) :
            ( /\ rawIssues[i].issueType \in {"recurring_payment_gap", "amount_drift"}
              /\ \E k \in EvidenceFacts(rawIssues[i]) :
                     CountsAsMonthly(k) /\ facts[k].recurrence # "monthly" )
                => ~HasImpact(rawIssues[i])

\* The longest of the gaps G.
LargestGaps(G) == { g \in G : \A h \in G : GapDaysOf(h) <= GapDaysOf(g) }

\* The issue has the severity and the impact that the gap g gives.
ComputedFromGap(issue, Q, g) ==
    /\ issue.severity = GapSeverity(MonthsMissedOf(g))
    /\ IF /\ MonthsMissedOf(g) >= 1
          /\ Cardinality(BeforeGap(Q, g)) >= 2
          /\ StablePreGap(BeforeGap(Q, g))
       THEN /\ 2 * issue.impactMin = TwiceMedianOf(BeforeGap(Q, g)) * MonthsMissedOf(g)
            /\ issue.impactMax = issue.impactMin
       ELSE ~HasImpact(issue)

\* C28: when the monthly payments of an entity have several gaps of more
\* than 45 days, the recurring_payment_gap issue has the monthsMissed, the
\* severity and the impact of the largest of these gaps.
C28_LargestGap ==
    Detected =>
        \A key \in PaymentKeysOfLedger :
            LET Q == PaidMonthlyOf(key)
            IN  Cardinality(LongGaps(Q)) >= 2 =>
                    \A i \in GapIssuesOf(key) :
                        \E g \in LargestGaps(LongGaps(Q)) : ComputedFromGap(rawIssues[i], Q, g)

(***************************************************************************)
(* C29                                                                     *)
(***************************************************************************)

\* The cleared outflows of an entity that have a date and an amount.
ChargesOf(key) ==
    { k \in 1..Len(facts) : IsClearedOutflow(facts[k]) /\ getEntityKey(facts[k]) = key }

\* Twice the amount of the latest fact of F.
TwiceLatestOf(F) == TwiceMedianOf(F \ AllButLatest(F))

\* The charges F number at least 4, all but the last are within +-10% of
\* their median, and the last is at least 15% above that median.
CreepRule(F) ==
    /\ Cardinality(F) >= 4
    /\ TwiceMedianOf(AllButLatest(F)) # 0
    /\ WithinOfMedian(AllButLatest(F), 10)
    /\ 100 * (TwiceLatestOf(F) - TwiceMedianOf(AllButLatest(F)))
           >= 15 * TwiceMedianOf(AllButLatest(F))

\* high when the increase times 12 exceeds 100, medium otherwise.
CreepSeverity(F) ==
    IF 12 * (TwiceLatestOf(F) - TwiceMedianOf(AllButLatest(F))) > 2 * 100
    THEN "high" ELSE "medium"

ClassifiedMonthly(key) ==
    key \in DOMAIN derivedRecurrence /\ derivedRecurrence[key].isMonthly

PriceCreepIssuesOf(key) ==
    { i \in 1..Len(rawIssues) :
          /\ rawIssues[i].issueType = "price_creep"
          /\ \E k \in EvidenceFacts(rawIssues[i]) : getEntityKey(facts[k]) = key }

EntityKeysOfLedger == { getEntityKey(facts[k]) : k \in 1..Len(facts) }

RunMinEvidence ==
    MergeOptions(AnalysisPruneOptions(scanMode, prune, rawIssues)).minEvidenceByType

\* The statement is of one merchant with 7 qualifying charges of which the
\* latest is at least 2.5 times the median of the six before.
SevenChargesWithSpike ==
    /\ BankRun
    /\ Cardinality(EntityKeysOfLedger) = 1
    /\ \A key \in EntityKeysOfLedger :
           /\ ~isNonMerchantTransaction(key, Null)
           /\ Cardinality(ChargesOf(key)) = 7
           /\ 2 * TwiceLatestOf(ChargesOf(key))
                  >= 5 * TwiceMedianOf(AllButLatest(ChargesOf(key)))

\* C30: every issue of a detector has at least the default minimum number
\* of evidenceFactIds of its issue type, so that the evidence gate of the
\* run, the first stage every issue of the final list has to pass, drops
\* none; on a bank statement of one merchant with 7 qualifying charges whose
\* latest is at least 2.5 times the historical median the unusual_spike
\* issue passes the gate.
C30_EvidenceGateKeepsDetected ==
    Detected =>
        /\ \A i \in 1..Len(rawIssues) :
               hasMinimumEvidence(rawIssues[i], DEFAULT_PRUNE_OPTIONS.minEvidenceByType)
        /\ filterLowEvidence(rawIssues, RunMinEvidence) = rawIssues
        /\ SevenChargesWithSpike =>
               \E i \in 1..Len(filterLowEvidence(rawIssues, RunMinEvidence)) :
                   filterLowEvidence(rawIssues, RunMinEvidence)[i].issueType = "unusual_spike"

====
